---------------------------- MODULE Spec2Model ----------------------------
(***************************************************************************)
(* PDF comparison core: text extraction and cleaning (pdf_processor.py),   *)
(* line alignment and difference classification (document_comparator.py), *)
(* and the application around it: the /api/compare and /api/chat handlers  *)
(* (main.py) with the chatbot's conversation (document_chatbot.py).         *)
(* Python indices are kept 0-based; At(s, i) reads s[i].                    *)
(***************************************************************************)
EXTENDS Integers, Sequences, FiniteSets, TLC

VARIABLES
    pdf1,        \* the first PDF handed to compare_documents / extract_text
    pdf2,        \* the second PDF handed to compare_documents
    differ,      \* the SequenceMatcher's cached matching_blocks and opcodes
    comparison,  \* what compare_documents returned (or raised)
    extracted,   \* what extract_text(pdf1) returned (or raised)
    raw_text,    \* the raw page text handed to _clean_text
    cleaned,     \* what _clean_text returned
    explainer,   \* main.explainer: None or the AIExplainer
    chatbot,     \* main.chatbot: None or the DocumentChatbot with its conversation_history
    current_comparison,      \* main.current_comparison
    current_document_texts,  \* main.current_document_texts
    request,     \* the HTTP request the application handled last
    response,    \* the HTTP response to it
    llm_request, \* the messages ask_question sent to the LLM while handling it
    tasks,       \* the handler coroutines of the requests in flight, each with its position
    running      \* the coroutine the event loop is running (0: none)

corevars == <<pdf1, pdf2, differ, comparison, extracted, raw_text, cleaned>>

appvars ==
    <<explainer, chatbot, current_comparison, current_document_texts,
      request, response, llm_request, tasks, running>>

vars == <<corevars, appvars>>

\* The value of a result that has not been computed yet.
NotYet == [status |-> "none"]

\* A slot of the event loop with no request in flight.
IdleTask == [kind |-> "idle"]

\* The application's globals as the module body of main.py first assigns them
\* (before the components are constructed), with no request handled.
AppNotStarted ==
    /\ explainer = NotYet
    /\ chatbot = NotYet
    /\ current_comparison = NotYet
    /\ current_document_texts = [k \in {} |-> <<>>]
    /\ request = NotYet
    /\ response = NotYet
    /\ llm_request = NotYet
    /\ tasks = <<>>
    /\ running = 0

(***************************************************************************)
(* Bounds of the model.                                                    *)
(***************************************************************************)
\* Longest enumerated line sequence of a document.
MaxLen == 3
\* Length of the run of one repeated line in the long documents.
LongRun == 200
\* Longest enumerated raw page text, in characters.
MaxText == 4
\* Most pages of an enumerated PDF.
MaxPages == 3
\* Most requests in flight at once.
MaxTasks == 2
\* Most questions answered about one comparison.
MaxQuestions == 2

\* The distinct page texts of the enumerated documents (one character each).
Lines == {"a", "b", "c"}

Max(x, y) == IF x >= y THEN x ELSE y
Min(x, y) == IF x <= y THEN x ELSE y

\* s[i] with a 0-based index.
At(s, i) == s[i + 1]

\* Python's s[lo:hi] for lo, hi >= 0: both ends are clamped to len(s) and an
\* empty range gives the empty list; no element outside s is read.
PySlice(s, lo, hi) ==
    LET l == Min(lo, Len(s))
        h == Min(hi, Len(s))
    IN  IF h <= l THEN <<>> ELSE [k \in 1..(h - l) |-> s[l + k]]

SeqsUpTo(S, n) == UNION {[1..k -> S] : k \in 1..n}

Rep(x, n) == [k \in 1..n |-> x]

\* A loop over a whole document is evaluated by halving its index range, and
\* the state after the first half is made a value before the second half runs,
\* which keeps the evaluation depth logarithmic in the document's length.
Forced(v) == v = v

(***************************************************************************)
(* difflib.SequenceMatcher(None, lines1, lines2), as used by               *)
(* compare_documents: isjunk is None, autojunk keeps its default True.     *)
(***************************************************************************)
\* autojunk: sequences b of at least this length have their popular elements purged
AutoJunkMinLen == 200
\* autojunk: ntest = n // AutoJunkDiv + 1
AutoJunkDiv == 100

IndexStep(b, elt, acc, j) == IF At(b, j) = elt THEN Append(acc, j) ELSE acc

\* for j in range(lo, hi): b2j.setdefault(b[j], []).append(j), for one elt.
RECURSIVE IndicesLoop(_, _, _, _, _)
IndicesLoop(b, elt, lo, hi, acc) ==
    IF hi <= lo THEN acc
    ELSE IF hi = lo + 1 THEN IndexStep(b, elt, acc, lo)
    ELSE LET mid == lo + (hi - lo) \div 2
             v   == IndicesLoop(b, elt, lo, mid, acc)
         IN  IF Forced(v) THEN IndicesLoop(b, elt, mid, hi, v) ELSE v

Occurrences(b, elt) == Cardinality({j \in 1..Len(b) : b[j] = elt})

\* __chain_b: the elements purged as popular.
Popular(b) ==
    LET n == Len(b)
    IN  IF n >= AutoJunkMinLen
        THEN {elt \in {b[j] : j \in 1..n} : Occurrences(b, elt) > (n \div AutoJunkDiv) + 1}
        ELSE {}

\* __chain_b: b2j maps each element of b that is not popular to its indices.
ChainB(b) ==
    [elt \in {b[j] : j \in 1..Len(b)} \ Popular(b) |-> IndicesLoop(b, elt, 0, Len(b), <<>>)]

J2LenGet(j2len, j) == IF j \in DOMAIN j2len THEN j2len[j] ELSE 0

\* An inner loop that keeps the last of several longest matches.
RECURSIVE InnerLoop_last_longest(_, _, _, _, _, _, _, _)
InnerLoop_last_longest(js, p, i, blo, bhi, j2len, newj2len, best) ==
    IF p > Len(js) THEN [j2len |-> newj2len, best |-> best]
    ELSE LET j == js[p] IN
         IF j < blo THEN InnerLoop_last_longest(js, p + 1, i, blo, bhi, j2len, newj2len, best)
         ELSE IF j >= bhi THEN [j2len |-> newj2len, best |-> best]
         ELSE LET k  == J2LenGet(j2len, j - 1) + 1
                  nj == [x \in (DOMAIN newj2len) \cup {j} |->
                            IF x = j THEN k ELSE newj2len[x]]
                  nb == IF k >= best.size
                        THEN [i |-> i - k + 1, j |-> j - k + 1, size |-> k]
                        ELSE best
              IN  InnerLoop_last_longest(js, p + 1, i, blo, bhi, j2len, nj, nb)

\* The inner loop of find_longest_match over the indices js[p..] of a[i] in b.
RECURSIVE InnerLoop(_, _, _, _, _, _, _, _)
InnerLoop(js, p, i, blo, bhi, j2len, newj2len, best) ==
    IF p > Len(js) THEN [j2len |-> newj2len, best |-> best]
    ELSE LET j == js[p] IN
         IF j < blo THEN InnerLoop(js, p + 1, i, blo, bhi, j2len, newj2len, best)
         ELSE IF j >= bhi THEN [j2len |-> newj2len, best |-> best]
         ELSE LET k  == J2LenGet(j2len, j - 1) + 1
                  nj == [x \in (DOMAIN newj2len) \cup {j} |->
                            IF x = j THEN k ELSE newj2len[x]]
                  nb == IF k > best.size
                        THEN [i |-> i - k + 1, j |-> j - k + 1, size |-> k]
                        ELSE best
              IN  InnerLoop(js, p + 1, i, blo, bhi, j2len, nj, nb)

EmptyMap == [x \in {} |-> 0]

\* One pass of the outer loop of find_longest_match, for a[i].
OuterStep(a, b2j, blo, bhi, s, i) ==
    LET js == IF At(a, i) \in DOMAIN b2j THEN b2j[At(a, i)] ELSE <<>>
    IN  InnerLoop(js, 1, i, blo, bhi, s.j2len, EmptyMap, s.best)

\* The outer loop of find_longest_match: for i in range(lo, hi).
RECURSIVE OuterLoop(_, _, _, _, _, _, _)
OuterLoop(a, b2j, blo, bhi, lo, hi, s) ==
    IF hi <= lo THEN s
    ELSE IF hi = lo + 1 THEN OuterStep(a, b2j, blo, bhi, s, lo)
    ELSE LET mid == lo + (hi - lo) \div 2
             v   == OuterLoop(a, b2j, blo, bhi, lo, mid, s)
         IN  IF Forced(v) THEN OuterLoop(a, b2j, blo, bhi, mid, hi, v) ELSE v

LeftStep(a, b, alo, blo, m) ==
    IF m.i > alo /\ m.j > blo /\ At(a, m.i - 1) = At(b, m.j - 1)
    THEN [i |-> m.i - 1, j |-> m.j - 1, size |-> m.size + 1]
    ELSE m

\* while besti > alo and bestj > blo and a[besti-1] == b[bestj-1] (no element
\* is junk): at most n passes, a pass whose condition fails changes nothing.
RECURSIVE ExtendLeft(_, _, _, _, _, _)
ExtendLeft(a, b, alo, blo, n, m) ==
    IF n <= 0 THEN m
    ELSE IF n = 1 THEN LeftStep(a, b, alo, blo, m)
    ELSE LET v == ExtendLeft(a, b, alo, blo, n \div 2, m)
         IN  IF Forced(v) THEN ExtendLeft(a, b, alo, blo, n - n \div 2, v) ELSE v

RightStep(a, b, ahi, bhi, m) ==
    IF m.i + m.size < ahi /\ m.j + m.size < bhi
       /\ At(a, m.i + m.size) = At(b, m.j + m.size)
    THEN [m EXCEPT !.size = m.size + 1]
    ELSE m

\* while besti+bestsize < ahi and bestj+bestsize < bhi and
\* a[besti+bestsize] == b[bestj+bestsize]: at most n passes.
RECURSIVE ExtendRight(_, _, _, _, _, _)
ExtendRight(a, b, ahi, bhi, n, m) ==
    IF n <= 0 THEN m
    ELSE IF n = 1 THEN RightStep(a, b, ahi, bhi, m)
    ELSE LET v == ExtendRight(a, b, ahi, bhi, n \div 2, m)
         IN  IF Forced(v) THEN ExtendRight(a, b, ahi, bhi, n - n \div 2, v) ELSE v

find_longest_match(a, b, b2j, alo, ahi, blo, bhi) ==
    LET found == OuterLoop(a, b2j, blo, bhi, alo, ahi,
                           [j2len |-> EmptyMap,
                            best |-> [i |-> alo, j |-> blo, size |-> 0]])
        left  == ExtendLeft(a, b, alo, blo, ahi - alo, found.best)
    IN  ExtendRight(a, b, ahi, bhi, ahi - alo, left)

\* The work loop of get_matching_blocks: queue is a stack of (alo, ahi, blo, bhi).
RECURSIVE MatchQueue(_, _, _, _, _)
MatchQueue(a, b, b2j, queue, blocks) ==
    IF queue = <<>> THEN blocks
    ELSE LET q    == queue[Len(queue)]
             rest == SubSeq(queue, 1, Len(queue) - 1)
             x    == find_longest_match(a, b, b2j, q[1], q[2], q[3], q[4])
             left == IF q[1] < x.i /\ q[3] < x.j
                     THEN <<(<<q[1], x.i, q[3], x.j>>)>> ELSE <<>>
             right == IF x.i + x.size < q[2] /\ x.j + x.size < q[4]
                      THEN <<(<<x.i + x.size, q[2], x.j + x.size, q[4]>>)>> ELSE <<>>
         IN  IF x.size = 0
             THEN MatchQueue(a, b, b2j, rest, blocks)
             ELSE MatchQueue(a, b, b2j, rest \o left \o right, Append(blocks, x))

\* Tuple order of Match(i, j, size).
MatchLess(x, y) ==
    \/ x.i < y.i
    \/ x.i = y.i /\ x.j < y.j
    \/ x.i = y.i /\ x.j = y.j /\ x.size < y.size

RECURSIVE InsertSorted(_, _)
InsertSorted(s, x) ==
    IF s = <<>> THEN <<x>>
    ELSE IF MatchLess(x, Head(s)) THEN <<x>> \o s
    ELSE <<Head(s)>> \o InsertSorted(Tail(s), x)

\* matching_blocks.sort()
RECURSIVE SortBlocks(_)
SortBlocks(s) ==
    IF s = <<>> THEN <<>> ELSE InsertSorted(SortBlocks(Tail(s)), Head(s))

\* Collapse adjacent equal blocks; cur is (i1, j1, k1).
RECURSIVE Collapse(_, _, _)
Collapse(blocks, p, cur) ==
    IF p > Len(blocks)
    THEN IF cur.size > 0 THEN <<cur>> ELSE <<>>
    ELSE LET x == blocks[p] IN
         IF cur.i + cur.size = x.i /\ cur.j + cur.size = x.j
         THEN Collapse(blocks, p + 1, [cur EXCEPT !.size = cur.size + x.size])
         ELSE (IF cur.size > 0 THEN <<cur>> ELSE <<>>) \o Collapse(blocks, p + 1, x)

\* A get_matching_blocks that forgets the closing block (len(a), len(b), 0).
get_matching_blocks_no_sentinel(a, b) ==
    LET found == MatchQueue(a, b, ChainB(b), <<(<<0, Len(a), 0, Len(b)>>)>>, <<>>)
    IN  Collapse(SortBlocks(found), 1, [i |-> 0, j |-> 0, size |-> 0])

get_matching_blocks(a, b) ==
    LET found == MatchQueue(a, b, ChainB(b), <<(<<0, Len(a), 0, Len(b)>>)>>, <<>>)
    IN  Collapse(SortBlocks(found), 1, [i |-> 0, j |-> 0, size |-> 0])
        \o <<[i |-> Len(a), j |-> Len(b), size |-> 0]>>

\* A get_opcodes loop that reports a replaced run as a deletion followed by
\* an insertion.
RECURSIVE OpcodesFrom_delete_then_insert(_, _, _, _)
OpcodesFrom_delete_then_insert(blocks, p, i, j) ==
    IF p > Len(blocks) THEN <<>>
    ELSE LET m   == blocks[p]
             del == IF i < m.i
                    THEN <<[tag |-> "delete", i1 |-> i, i2 |-> m.i, j1 |-> j, j2 |-> j]>>
                    ELSE <<>>
             ins == IF j < m.j
                    THEN <<[tag |-> "insert", i1 |-> m.i, i2 |-> m.i, j1 |-> j, j2 |-> m.j]>>
                    ELSE <<>>
             eq  == IF m.size > 0
                    THEN <<[tag |-> "equal", i1 |-> m.i, i2 |-> m.i + m.size,
                            j1 |-> m.j, j2 |-> m.j + m.size]>>
                    ELSE <<>>
         IN  del \o ins \o eq
             \o OpcodesFrom_delete_then_insert(blocks, p + 1, m.i + m.size, m.j + m.size)

\* The loop of get_opcodes over the matching blocks, from (i, j).
RECURSIVE OpcodesFrom(_, _, _, _)
OpcodesFrom(blocks, p, i, j) ==
    IF p > Len(blocks) THEN <<>>
    ELSE LET m   == blocks[p]
             tag == IF i < m.i /\ j < m.j THEN "replace"
                    ELSE IF i < m.i THEN "delete"
                    ELSE IF j < m.j THEN "insert"
                    ELSE ""
             chg == IF tag # ""
                    THEN <<[tag |-> tag, i1 |-> i, i2 |-> m.i, j1 |-> j, j2 |-> m.j]>>
                    ELSE <<>>
             eq  == IF m.size > 0
                    THEN <<[tag |-> "equal", i1 |-> m.i, i2 |-> m.i + m.size,
                            j1 |-> m.j, j2 |-> m.j + m.size]>>
                    ELSE <<>>
         IN  chg \o eq \o OpcodesFrom(blocks, p + 1, m.i + m.size, m.j + m.size)

get_opcodes(matching_blocks) == OpcodesFrom(matching_blocks, 1, 0, 0)

RECURSIVE SumSizes(_, _)
SumSizes(blocks, p) ==
    IF p > Len(blocks) THEN 0 ELSE blocks[p].size + SumSizes(blocks, p + 1)

\* _calculate_ratio: the float 2.0 * matches / length is kept as the exact
\* fraction num / den; 1.0 when length is 0.
calculate_ratio_undoubled(matches, length) ==
    IF length # 0 THEN [num |-> matches, den |-> length]
    ELSE [num |-> 1, den |-> 1]

calculate_ratio(matches, length) ==
    IF length # 0 THEN [num |-> 2 * matches, den |-> length]
    ELSE [num |-> 1, den |-> 1]

\* The SequenceMatcher once get_opcodes() has run: its sequences and its cached
\* matching_blocks and opcodes.
SequenceMatcher(a, b) ==
    LET matching_blocks == get_matching_blocks(a, b)
    IN  [status |-> "ok", a |-> a, b |-> b,
         matching_blocks |-> matching_blocks,
         opcodes |-> get_opcodes(matching_blocks)]

\* SequenceMatcher.ratio, from the cached matching blocks.
ratio(sm) == calculate_ratio(SumSizes(sm.matching_blocks, 1), Len(sm.a) + Len(sm.b))

(***************************************************************************)
(* Text: a Python str is the sequence of its characters.                   *)
(***************************************************************************)
\* The characters the regular expression \s and str.strip() treat as whitespace.
Whitespace == {" ", "\n", "\t"}

\* A substitution that leaves line breaks alone: every maximal run of spaces
\* and tabs becomes one space.
RECURSIVE SubWhitespace_keeps_line_breaks(_, _)
SubWhitespace_keeps_line_breaks(text, p) ==
    IF p > Len(text) THEN <<>>
    ELSE IF text[p] \in Whitespace \ {"\n"}
         THEN IF p > 1 /\ text[p - 1] \in Whitespace \ {"\n"}
              THEN SubWhitespace_keeps_line_breaks(text, p + 1)
              ELSE <<" ">> \o SubWhitespace_keeps_line_breaks(text, p + 1)
         ELSE <<text[p]>> \o SubWhitespace_keeps_line_breaks(text, p + 1)

\* re.sub(r'\s+', ' ', text): every maximal run of whitespace becomes one space.
RECURSIVE SubWhitespace(_, _)
SubWhitespace(text, p) ==
    IF p > Len(text) THEN <<>>
    ELSE IF text[p] \in Whitespace
         THEN IF p > 1 /\ text[p - 1] \in Whitespace
              THEN SubWhitespace(text, p + 1)
              ELSE <<" ">> \o SubWhitespace(text, p + 1)
         ELSE <<text[p]>> \o SubWhitespace(text, p + 1)

SplitStep(text, sep, s, p) ==
    IF text[p] = sep
    THEN [segs |-> Append(s.segs, s.cur), cur |-> <<>>]
    ELSE [s EXCEPT !.cur = Append(s.cur, text[p])]

RECURSIVE SplitLoop(_, _, _, _, _)
SplitLoop(text, sep, lo, hi, s) ==
    IF hi <= lo THEN s
    ELSE IF hi = lo + 1 THEN SplitStep(text, sep, s, lo)
    ELSE LET mid == lo + (hi - lo) \div 2
             v   == SplitLoop(text, sep, lo, mid, s)
         IN  IF Forced(v) THEN SplitLoop(text, sep, mid, hi, v) ELSE v

\* text.split(sep): the segments between the separators, at least one.
Split(text, sep) ==
    LET s == SplitLoop(text, sep, 1, Len(text) + 1, [segs |-> <<>>, cur |-> <<>>])
    IN  Append(s.segs, s.cur)

RECURSIVE LStrip(_)
LStrip(line) ==
    IF line # <<>> /\ Head(line) \in Whitespace THEN LStrip(Tail(line)) ELSE line

RECURSIVE RStrip(_)
RStrip(line) ==
    IF line # <<>> /\ line[Len(line)] \in Whitespace
    THEN RStrip(SubSeq(line, 1, Len(line) - 1)) ELSE line

\* line.strip()
Strip(line) == RStrip(LStrip(line))

JoinStep(parts, sep, acc, k) ==
    IF k = 1 THEN parts[1] ELSE acc \o <<sep>> \o parts[k]

RECURSIVE JoinLoop(_, _, _, _, _)
JoinLoop(parts, sep, lo, hi, acc) ==
    IF hi <= lo THEN acc
    ELSE IF hi = lo + 1 THEN JoinStep(parts, sep, acc, lo)
    ELSE LET mid == lo + (hi - lo) \div 2
             v   == JoinLoop(parts, sep, lo, mid, acc)
         IN  IF Forced(v) THEN JoinLoop(parts, sep, mid, hi, v) ELSE v

\* sep.join(parts)
Join(parts, sep) == JoinLoop(parts, sep, 1, Len(parts) + 1, <<>>)

\* The loop of _clean_text that keeps at most one of consecutive empty lines.
RECURSIVE CollapseBlank(_, _, _)
CollapseBlank(lines, p, prev_empty) ==
    IF p > Len(lines) THEN <<>>
    ELSE IF lines[p] # <<>> THEN <<lines[p]>> \o CollapseBlank(lines, p + 1, FALSE)
    ELSE IF ~prev_empty THEN <<(<<>>)>> \o CollapseBlank(lines, p + 1, TRUE)
    ELSE CollapseBlank(lines, p + 1, prev_empty)

\* PDFProcessor._clean_text (a None text is a page of kind "none", see TextPage)
clean_text(text) ==
    IF text = <<>> THEN <<>>
    ELSE LET t     == SubWhitespace(text, 1)
             split == Split(t, "\n")
             lines == [k \in 1..Len(split) |-> Strip(split[k])]
         IN  Join(CollapseBlank(lines, 1, FALSE), "\n")

(***************************************************************************)
(* A PDF as pdfplumber presents it: whether it opens, and its pages; a     *)
(* page's extract_text() returns a str, returns None, or raises.           *)
(***************************************************************************)
TextPage(text) == [kind |-> "text", text |-> text]
NonePage == [kind |-> "none", text |-> <<>>]
BadPage == [kind |-> "raises", text |-> <<>>]

ReadablePdf(pages) == [openable |-> TRUE, pages |-> pages]
CorruptPdf == [openable |-> FALSE, pages |-> <<>>]

\* A page loop that skips a page whose extract_text() raises.
PageStep_skip_failed(pages, s, p) ==
    IF s.raised THEN s
    ELSE IF pages[p].kind = "text" /\ pages[p].text # <<>>
    THEN LET cleaned_text == clean_text(pages[p].text)
         IN  [raised |-> FALSE,
              text_content |-> Append(s.text_content, cleaned_text),
              pages_data |-> Append(s.pages_data,
                                    [page |-> p, text |-> cleaned_text,
                                     lines |-> Split(cleaned_text, "\n")])]
    ELSE s

\* One pass of the page loop of extract_text, for page number p (1-based, as
\* enumerate(pdf.pages, 1)); nothing runs after a page has raised.
PageStep(pages, s, p) ==
    IF s.raised THEN s
    ELSE IF pages[p].kind = "raises" THEN [s EXCEPT !.raised = TRUE]
    ELSE IF pages[p].kind = "text" /\ pages[p].text # <<>>
    THEN LET cleaned_text == clean_text(pages[p].text)
         IN  [raised |-> FALSE,
              text_content |-> Append(s.text_content, cleaned_text),
              pages_data |-> Append(s.pages_data,
                                    [page |-> p, text |-> cleaned_text,
                                     lines |-> Split(cleaned_text, "\n")])]
    ELSE s

RECURSIVE PageLoop(_, _, _, _)
PageLoop(pages, lo, hi, s) ==
    IF hi <= lo THEN s
    ELSE IF hi = lo + 1 THEN PageStep(pages, s, lo)
    ELSE LET mid == lo + (hi - lo) \div 2
             v   == PageLoop(pages, lo, mid, s)
         IN  IF Forced(v) THEN PageLoop(pages, mid, hi, v) ELSE v

ReadPages(pages) ==
    PageLoop(pages, 1, Len(pages) + 1,
             [raised |-> FALSE, text_content |-> <<>>, pages_data |-> <<>>])

\* An extract_text that returns the pages read before the one that failed.
extract_text_partial(pdf) ==
    IF ~pdf.openable
    THEN [status |-> "raised", prefix |-> "Error al procesar PDF: ", cause |-> "open"]
    ELSE LET r == ReadPages(pdf.pages)
             full_text == Join(r.text_content, "\n")
         IN  [status |-> "ok",
              full_text |-> full_text,
              pages |-> r.pages_data,
              total_pages |-> Len(pdf.pages),
              total_lines |-> Len(Split(full_text, "\n")),
              total_chars |-> Len(full_text)]

\* An extract_text whose total_lines counts the recorded pages.
extract_text_lines_per_page(pdf) ==
    IF ~pdf.openable
    THEN [status |-> "raised", prefix |-> "Error al procesar PDF: ", cause |-> "open"]
    ELSE LET r == ReadPages(pdf.pages) IN
         IF r.raised
         THEN [status |-> "raised", prefix |-> "Error al procesar PDF: ", cause |-> "page"]
         ELSE LET full_text == Join(r.text_content, "\n")
              IN  [status |-> "ok",
                   full_text |-> full_text,
                   pages |-> r.pages_data,
                   total_pages |-> Len(pdf.pages),
                   total_lines |-> Len(r.text_content),
                   total_chars |-> Len(full_text)]

\* PDFProcessor.extract_text: the document, or the exception it raises.
extract_text(pdf) ==
    IF ~pdf.openable
    THEN [status |-> "raised", prefix |-> "Error al procesar PDF: ", cause |-> "open"]
    ELSE LET r == ReadPages(pdf.pages) IN
         IF r.raised
         THEN [status |-> "raised", prefix |-> "Error al procesar PDF: ", cause |-> "page"]
         ELSE LET full_text == Join(r.text_content, "\n")
              IN  [status |-> "ok",
                   full_text |-> full_text,
                   pages |-> r.pages_data,
                   total_pages |-> Len(pdf.pages),
                   total_lines |-> Len(Split(full_text, "\n")),
                   total_chars |-> Len(full_text)]

(***************************************************************************)
(* DocumentComparator                                                      *)
(***************************************************************************)
\* The default of _get_context's context_size.
ContextSize == 3

\* A _get_context that takes document 2's windows around pos1.
get_context_pos1_for_doc2(l1, l2, pos1, pos2) ==
    [before_doc1 |-> PySlice(l1, Max(0, pos1 - ContextSize), pos1),
     after_doc1  |-> PySlice(l1, pos1, Min(Len(l1), pos1 + ContextSize)),
     before_doc2 |-> PySlice(l2, Max(0, pos1 - ContextSize), pos1),
     after_doc2  |-> PySlice(l2, pos1, Min(Len(l2), pos1 + ContextSize))]

\* DocumentComparator._get_context
get_context(l1, l2, pos1, pos2) ==
    [before_doc1 |-> PySlice(l1, Max(0, pos1 - ContextSize), pos1),
     after_doc1  |-> PySlice(l1, pos1, Min(Len(l1), pos1 + ContextSize)),
     before_doc2 |-> PySlice(l2, Max(0, pos2 - ContextSize), pos2),
     after_doc2  |-> PySlice(l2, pos2, Min(Len(l2), pos2 + ContextSize))]

\* A 'modified' record that pairs old and new lines up to the shorter side.
ModifiedRecord_truncated_to_shorter(l1, l2, op) ==
    [type |-> "modified", position |-> op.i1,
     old_lines |-> PySlice(l1, op.i1, op.i1 + Min(op.i2 - op.i1, op.j2 - op.j1)),
     new_lines |-> PySlice(l2, op.j1, op.j1 + Min(op.i2 - op.i1, op.j2 - op.j1)),
     context |-> get_context(l1, l2, op.i1, op.j1)]

\* A 'modified' record whose new_lines are sliced from document 1.
ModifiedRecord_new_from_doc1(l1, l2, op) ==
    [type |-> "modified", position |-> op.i1,
     old_lines |-> PySlice(l1, op.i1, op.i2),
     new_lines |-> PySlice(l1, op.j1, op.j2),
     context |-> get_context(l1, l2, op.i1, op.j1)]

\* The record appended for a 'replace' opcode.
ModifiedRecord(l1, l2, op) ==
    [type |-> "modified", position |-> op.i1,
     old_lines |-> PySlice(l1, op.i1, op.i2),
     new_lines |-> PySlice(l2, op.j1, op.j2),
     context |-> get_context(l1, l2, op.i1, op.j1)]

\* A 'deleted' record whose lines are sliced from document 2.
DeletedRecord_from_doc2(l1, l2, op) ==
    [type |-> "deleted", position |-> op.i1,
     lines |-> PySlice(l2, op.i1, op.i2),
     context |-> get_context(l1, l2, op.i1, op.i1)]

\* The record appended for a 'delete' opcode.
DeletedRecord(l1, l2, op) ==
    [type |-> "deleted", position |-> op.i1,
     lines |-> PySlice(l1, op.i1, op.i2),
     context |-> get_context(l1, l2, op.i1, op.i1)]

\* An 'added' record placed at i1.
AddedRecord_at_i1(l1, l2, op) ==
    [type |-> "added", position |-> op.i1,
     lines |-> PySlice(l2, op.j1, op.j2),
     context |-> get_context(l1, l2, op.i1, op.j1)]

\* The record appended for an 'insert' opcode.
AddedRecord(l1, l2, op) ==
    [type |-> "added", position |-> op.j1,
     lines |-> PySlice(l2, op.j1, op.j2),
     context |-> get_context(l1, l2, op.i1, op.j1)]

\* What one pass of the loop of _get_differences appends (nothing for 'equal').
DifferenceOf(l1, l2, op) ==
    IF op.tag = "replace" THEN <<ModifiedRecord(l1, l2, op)>>
    ELSE IF op.tag = "delete" THEN <<DeletedRecord(l1, l2, op)>>
    ELSE IF op.tag = "insert" THEN <<AddedRecord(l1, l2, op)>>
    ELSE <<>>

\* A _get_differences that inserts each record at the front of the list.
RECURSIVE get_differences_prepend(_, _, _, _)
get_differences_prepend(l1, l2, opcodes, p) ==
    IF p > Len(opcodes) THEN <<>>
    ELSE get_differences_prepend(l1, l2, opcodes, p + 1) \o DifferenceOf(l1, l2, opcodes[p])

\* DocumentComparator._get_differences: the loop over the opcodes from p.
RECURSIVE get_differences(_, _, _, _)
get_differences(l1, l2, opcodes, p) ==
    IF p > Len(opcodes) THEN <<>>
    ELSE DifferenceOf(l1, l2, opcodes[p]) \o get_differences(l1, l2, opcodes, p + 1)

CountType(differences, type) ==
    Cardinality({k \in 1..Len(differences) : differences[k].type = type})

\* A sum of lines that also counts the new_lines of modified records as added
\* and their old_lines as deleted.
RECURSIVE SumLines_with_modified(_, _, _)
SumLines_with_modified(differences, type, p) ==
    IF p > Len(differences) THEN 0
    ELSE (IF differences[p].type = type THEN Len(differences[p].lines)
          ELSE IF differences[p].type = "modified" /\ type = "added"
          THEN Len(differences[p].new_lines)
          ELSE IF differences[p].type = "modified" /\ type = "deleted"
          THEN Len(differences[p].old_lines)
          ELSE 0)
         + SumLines_with_modified(differences, type, p + 1)

RECURSIVE SumLines(_, _, _)
SumLines(differences, type, p) ==
    IF p > Len(differences) THEN 0
    ELSE (IF differences[p].type = type THEN Len(differences[p].lines) ELSE 0)
         + SumLines(differences, type, p + 1)

\* len(d.get(key, []))
LenGet(d, key) == IF key \in DOMAIN d THEN Len(d[key]) ELSE 0

\* A sum of changed lines that counts a modified record's old_lines only.
RECURSIVE TotalChanges_old_only(_, _)
TotalChanges_old_only(differences, p) ==
    IF p > Len(differences) THEN 0
    ELSE LenGet(differences[p], "lines") + LenGet(differences[p], "old_lines")
         + TotalChanges_old_only(differences, p + 1)

RECURSIVE TotalChanges(_, _)
TotalChanges(differences, p) ==
    IF p > Len(differences) THEN 0
    ELSE LenGet(differences[p], "lines") + LenGet(differences[p], "old_lines")
         + LenGet(differences[p], "new_lines") + TotalChanges(differences, p + 1)

\* An _estimate_pages_changed without the early return for an empty list.
estimate_pages_changed_always_estimates(differences, doc1, doc2) ==
    LET total_changes == TotalChanges(differences, 1)
        L == doc1.total_lines + doc2.total_lines
        P == Max(Max(doc1.total_pages, doc2.total_pages), 1)
        estimated_pages == (IF L > 2 * P THEN (total_changes * 2 * P) \div L
                            ELSE total_changes) + 1
    IN  Min(estimated_pages, Max(doc1.total_pages, doc2.total_pages))

\* DocumentComparator._estimate_pages_changed.  With L = total_lines1 +
\* total_lines2 and P = max(total_pages1, total_pages2, 1), avg_lines_per_page
\* is L / (2 P), and int(changes / max(avg, 1)) is changes * 2P \div L when
\* avg > 1 and changes otherwise.
estimate_pages_changed(differences, doc1, doc2) ==
    IF differences = <<>> THEN 0
    ELSE LET total_changes == TotalChanges(differences, 1)
             L == doc1.total_lines + doc2.total_lines
             P == Max(Max(doc1.total_pages, doc2.total_pages), 1)
             estimated_pages == (IF L > 2 * P THEN (total_changes * 2 * P) \div L
                                 ELSE total_changes) + 1
         IN  Min(estimated_pages, Max(doc1.total_pages, doc2.total_pages))

\* DocumentComparator._calculate_statistics
calculate_statistics(doc1, doc2, differences) ==
    [total_differences   |-> Len(differences),
     added_sections      |-> CountType(differences, "added"),
     deleted_sections    |-> CountType(differences, "deleted"),
     modified_sections   |-> CountType(differences, "modified"),
     total_added_lines   |-> SumLines(differences, "added", 1),
     total_deleted_lines |-> SumLines(differences, "deleted", 1),
     pages_changed       |-> estimate_pages_changed(differences, doc1, doc2)]

Summary(doc) ==
    [total_pages |-> doc.total_pages, total_lines |-> doc.total_lines,
     total_chars |-> doc.total_chars]

\* DocumentComparator.compare_documents once both documents are extracted
\* and the SequenceMatcher sm is built on their lines.
CompareExtracted(doc1, doc2, sm) ==
    LET differences == get_differences(sm.a, sm.b, sm.opcodes, 1)
    IN  [status |-> "ok",
         document1 |-> Summary(doc1),
         document2 |-> Summary(doc2),
         differences |-> differences,
         statistics |-> calculate_statistics(doc1, doc2, differences),
         similarity_ratio |-> ratio(sm)]

(***************************************************************************)
(* Inputs                                                                  *)
(***************************************************************************)
\* The characters of the enumerated raw page texts.
Chars == {" ", "\n", "\t", "x", "y"}

\* Scenario 5 of the specification: "  Art   1  \n\n\n Art 2 "
Scenario5 ==
    <<" ", " ", "A", "r", "t", " ", " ", " ", "1", " ", " ", "\n", "\n", "\n",
      " ", "A", "r", "t", " ", "2", " ">>

RawTexts == {<<>>} \cup SeqsUpTo(Chars, MaxText) \cup {Scenario5}

\* A PDF with one page per line, the page's text being that line.
PdfOfLines(s) == ReadablePdf([k \in 1..Len(s) |-> TextPage(<<s[k]>>)])

ShortPdfs == {PdfOfLines(s) : s \in SeqsUpTo(Lines, MaxLen)}

\* Some longer documents, whose alignment splits on both sides of a match.
MediumPdfs ==
    {PdfOfLines(<<"a", "b", "c", "a", "b">>),
     PdfOfLines(<<"c", "a", "b", "c", "a", "b">>),
     PdfOfLines(<<"a", "a", "b", "b", "c", "c">>),
     PdfOfLines(<<"b", "c", "a", "c", "b">>),
     PdfOfLines(<<"a", "b", "c", "a", "c">>)}

\* Documents long enough for the aligner's autojunk heuristic.
LongPdfs == {PdfOfLines(<<p>> \o Rep("a", LongRun)) : p \in {"a", "b"}}

\* Documents with pages that carry no text, and a file that does not open.
OddPdfs ==
    {ReadablePdf(<<>>),
     ReadablePdf(<<NonePage>>),
     ReadablePdf(<<TextPage(<<"a">>), NonePage, TextPage(<<"b">>)>>),
     ReadablePdf(<<TextPage(<<" ">>), TextPage(<<"a">>)>>),
     ReadablePdf(<<TextPage(<<"a">>), BadPage>>),
     CorruptPdf}

ComparePdfs == ShortPdfs \cup MediumPdfs \cup LongPdfs \cup OddPdfs

\* The raw results of one page's extract_text().
PageKinds ==
    {TextPage(<<"a">>), TextPage(<<"b">>), TextPage(<<"a", "\n", "b">>),
     TextPage(<<" ">>), TextPage(<<>>), NonePage, BadPage}

ExtractPdfs ==
    {CorruptPdf, ReadablePdf(<<>>)}
    \cup {ReadablePdf(s) : s \in SeqsUpTo(PageKinds, MaxPages)}

(***************************************************************************)
(* compare_documents(pdf1, pdf2)                                           *)
(***************************************************************************)
InitCompare ==
    /\ pdf1 \in ComparePdfs
    /\ pdf2 \in ComparePdfs
    /\ differ = NotYet
    /\ comparison = NotYet
    /\ extracted = NotYet
    /\ raw_text = <<>>
    /\ cleaned = NotYet
    /\ AppNotStarted

\* DocumentComparator.compare_documents: an exception of either extract_text
\* propagates before the SequenceMatcher is built.
CompareDocuments ==
    /\ comparison.status = "none"
    /\ LET doc1 == extract_text(pdf1)
           doc2 == extract_text(pdf2)
       IN  IF doc1.status = "raised"
           THEN comparison' = doc1 /\ differ' = differ
           ELSE IF doc2.status = "raised"
           THEN comparison' = doc2 /\ differ' = differ
           ELSE /\ differ' = SequenceMatcher(Split(doc1.full_text, "\n"),
                                             Split(doc2.full_text, "\n"))
                /\ comparison' = CompareExtracted(doc1, doc2, differ')
    /\ UNCHANGED <<pdf1, pdf2, extracted, raw_text, cleaned, appvars>>

NextCompare == CompareDocuments

SpecCompare == InitCompare /\ [][NextCompare]_vars

(***************************************************************************)
(* extract_text(pdf1)                                                      *)
(***************************************************************************)
InitExtract ==
    /\ pdf1 \in ExtractPdfs
    /\ pdf2 = CorruptPdf
    /\ differ = NotYet
    /\ comparison = NotYet
    /\ extracted = NotYet
    /\ raw_text = <<>>
    /\ cleaned = NotYet
    /\ AppNotStarted

ExtractText ==
    /\ extracted.status = "none"
    /\ extracted' = extract_text(pdf1)
    /\ UNCHANGED <<pdf1, pdf2, differ, comparison, raw_text, cleaned, appvars>>

NextExtract == ExtractText

SpecExtract == InitExtract /\ [][NextExtract]_vars

(***************************************************************************)
(* _clean_text(raw_text)                                                   *)
(***************************************************************************)
InitClean ==
    /\ raw_text \in RawTexts
    /\ pdf1 = CorruptPdf
    /\ pdf2 = CorruptPdf
    /\ differ = NotYet
    /\ comparison = NotYet
    /\ extracted = NotYet
    /\ cleaned = NotYet
    /\ AppNotStarted

CleanText ==
    /\ cleaned.status = "none"
    /\ cleaned' = [status |-> "ok", text |-> clean_text(raw_text)]
    /\ UNCHANGED <<pdf1, pdf2, differ, comparison, extracted, raw_text, appvars>>

NextClean == CleanText

SpecClean == InitClean /\ [][NextClean]_vars

(***************************************************************************)
(* The application (main.py) and the chatbot (document_chatbot.py).  A     *)
(* dict is a record, {} the record without fields, None the value NotYet.  *)
(***************************************************************************)
\* {}
EmptyDict == [k \in {} |-> <<>>]

\* d.get(key, default)
DictGet(d, key, default) == IF key \in DOMAIN d THEN d[key] ELSE default

\* An endswith that only checks that s is as long as the suffix.
EndsWith_length_only(s, suffix) == Len(s) >= Len(suffix)

\* s.endswith(suffix)
EndsWith(s, suffix) ==
    /\ Len(s) >= Len(suffix)
    /\ SubSeq(s, Len(s) - Len(suffix) + 1, Len(s)) = suffix

\* s[-n:]
LastN(s, n) == SubSeq(s, Max(1, Len(s) - n + 1), Len(s))

PdfSuffix == <<".", "p", "d", "f">>

\* An uploaded file: the filename the client sent and the bytes, as the PDF
\* they encode.
Upload(filename, content) == [filename |-> filename, content |-> content]

\* UPLOAD_DIR / f"temp_{filename}"
TempPath(filename) == <<"uploads", "temp_">> \o filename

\* Slicing limits of _prepare_document_context.
ContextDifferences == 10
ContextLines == 3
ContextModifiedLines == 2
ContextLineChars == 200
SampleThreshold == 3000
SampleHead == 2000
SampleTail == 1000

\* f"{ratio:.2%}": the ratio in hundredths of a percent, rounded half to even.
Percent2(r) ==
    LET q   == (r.num * 10000) \div r.den
        rem == (r.num * 10000) % r.den
    IN  IF 2 * rem > r.den THEN q + 1
        ELSE IF 2 * rem < r.den THEN q
        ELSE IF q % 2 = 0 THEN q ELSE q + 1

\* lines[:n] with every line cut to line[:200]
CutLines(lines, n) ==
    LET head == PySlice(lines, 0, Min(n, Len(lines)))
    IN  [k \in 1..Len(head) |-> PySlice(head[k], 0, Min(ContextLineChars, Len(head[k])))]

\* What _prepare_document_context writes for one difference.
ContextDifference(diff) ==
    IF diff.type = "modified"
    THEN [type |-> diff.type,
          old_lines |-> CutLines(diff.old_lines, ContextModifiedLines),
          new_lines |-> CutLines(diff.new_lines, ContextModifiedLines)]
    ELSE [type |-> diff.type, lines |-> CutLines(diff.lines, ContextLines)]

\* The sample of a document's text: nothing for an empty text, the first 2000
\* and the last 1000 characters of a text of more than 3000.
TextSample(text) ==
    IF text = <<>> THEN <<>>
    ELSE IF Len(text) > SampleThreshold
    THEN <<PySlice(text, 0, SampleHead) \o <<"\n", ".", ".", ".", "\n">>
           \o LastN(text, SampleTail)>>
    ELSE <<text>>

\* A _prepare_document_context that samples document 2's text for both
\* documents.
prepare_document_context_one_text(comparison_result, document_texts) ==
    LET differences == PySlice(comparison_result.differences, 0,
                               Min(ContextDifferences,
                                   Len(comparison_result.differences)))
        stats == comparison_result.statistics
    IN  [document1 |-> comparison_result.document1,
         document2 |-> comparison_result.document2,
         similarity |-> Percent2(comparison_result.similarity_ratio),
         statistics |-> [total_differences |-> stats.total_differences,
                         added_sections |-> stats.added_sections,
                         deleted_sections |-> stats.deleted_sections,
                         modified_sections |-> stats.modified_sections],
         differences |-> [k \in 1..Len(differences) |-> ContextDifference(differences[k])],
         sample1 |-> TextSample(DictGet(document_texts, "document2", <<>>)),
         sample2 |-> TextSample(DictGet(document_texts, "document2", <<>>))]

\* DocumentChatbot._prepare_document_context: the parts of the context, by
\* section.
prepare_document_context(comparison_result, document_texts) ==
    LET differences == PySlice(comparison_result.differences, 0,
                               Min(ContextDifferences,
                                   Len(comparison_result.differences)))
        stats == comparison_result.statistics
    IN  [document1 |-> comparison_result.document1,
         document2 |-> comparison_result.document2,
         similarity |-> Percent2(comparison_result.similarity_ratio),
         statistics |-> [total_differences |-> stats.total_differences,
                         added_sections |-> stats.added_sections,
                         deleted_sections |-> stats.deleted_sections,
                         modified_sections |-> stats.modified_sections],
         differences |-> [k \in 1..Len(differences) |-> ContextDifference(differences[k])],
         sample1 |-> TextSample(DictGet(document_texts, "document1", <<>>)),
         sample2 |-> TextSample(DictGet(document_texts, "document2", <<>>))]

\* Limits of the conversation history in ask_question.
RecentHistory == 6
MaxHistory == 20

SystemMessage == [role |-> "system", content |-> [kind |-> "system_prompt"]]

\* The messages ask_question sends: the system prompt, the last 6 messages of
\* the history, then the context with the question.
ChatMessages(history, context, question) ==
    <<SystemMessage>> \o LastN(history, RecentHistory)
    \o <<[role |-> "user",
          content |-> [kind |-> "prompt", context |-> context, question |-> question]]>>

\* A history that is never cut to its last 20 messages.
HistoryAfter_uncapped(history, question, answer) ==
    history \o <<[role |-> "user", content |-> [kind |-> "text", text |-> question]],
                 [role |-> "assistant", content |-> [kind |-> "text", text |-> answer]]>>

\* The history after a question was answered: both appended, the last 20 kept.
HistoryAfter(history, question, answer) ==
    LastN(history \o <<[role |-> "user", content |-> [kind |-> "text", text |-> question]],
                       [role |-> "assistant", content |-> [kind |-> "text", text |-> answer]]>>,
          MaxHistory)

\* A clear_history that leaves the history as it is.
clear_history_keeps(bot) == bot

\* DocumentChatbot.clear_history: the history becomes the empty list.
clear_history(bot) == [bot EXCEPT !.conversation_history = <<>>]

\* Inputs of the application: filenames, uploads, questions, LLM answers.
XPdf == <<"x", ".", "p", "d", "f">>
YPdf == <<"y", ".", "p", "d", "f">>
NTxt == <<"n", ".", "t", "x", "t">>

AppPdfA == PdfOfLines(<<"a">>)
AppPdfB == PdfOfLines(<<"a", "b">>)
AppPdfBad == ReadablePdf(<<TextPage(<<"a">>), BadPage>>)

Uploads ==
    {Upload(XPdf, AppPdfA), Upload(YPdf, AppPdfB), Upload(XPdf, AppPdfB),
     Upload(YPdf, AppPdfBad), Upload(NTxt, AppPdfA)}

Questions == {<<"q">>, <<" ", "q", " ">>, <<" ">>, <<>>}

Answers == {<<"r">>}

\* What the call of the LLM inside ask_question does: it returns an answer or
\* it raises.
LlmOutcomes == {[raised |-> FALSE, answer |-> a] : a \in Answers}
               \cup {[raised |-> TRUE, answer |-> <<>>]}

\* The explanation of a response: None, or the text explain_differences
\* returns (the LLM's, or the error text of a failed call).
NoExplanation == [kind |-> "none"]

Explanations == {NoExplanation, [kind |-> "text"]}

HttpError(code, detail) == [status |-> "error", code |-> code, detail |-> detail]

InitApp ==
    /\ pdf1 = NotYet
    /\ pdf2 = NotYet
    /\ differ = NotYet
    /\ comparison = NotYet
    /\ extracted = NotYet
    /\ raw_text = <<>>
    /\ cleaned = NotYet
    /\ \E api_key \in BOOLEAN :
          /\ explainer = IF api_key THEN [status |-> "ok"] ELSE NotYet
          /\ chatbot = IF api_key THEN [status |-> "ok", conversation_history |-> <<>>]
                       ELSE NotYet
    /\ current_comparison = NotYet
    /\ current_document_texts = EmptyDict
    /\ request = NotYet
    /\ response = NotYet
    /\ llm_request = NotYet
    /\ tasks = <<>>
    /\ running = 0

\* POST /api/compare (main.compare_documents).  Both uploads are written to
\* their temp paths, file1 first, so the file read as document 1 holds file2's
\* bytes when the two paths are the same; the temp files are removed in the
\* finally block whatever happens.  pdf1 and pdf2 are the two files handed to
\* comparator.compare_documents while the request is handled (NotYet when the
\* request writes no temp file), differ and comparison what it computes (none
\* of them outlives the request).
ApiCompare(file1, file2, generate_explanation, explanation) ==
    /\ explanation = NoExplanation <=> ~(generate_explanation /\ explainer.status = "ok")
    /\ request' = [endpoint |-> "compare", file1 |-> file1, file2 |-> file2,
                   generate_explanation |-> generate_explanation]
    /\ llm_request' = NotYet
    /\ IF ~EndsWith(file1.filename, PdfSuffix) \/ ~EndsWith(file2.filename, PdfSuffix)
       THEN /\ response' = HttpError(400, "Ambos archivos deben ser PDFs")
            /\ pdf1' = NotYet /\ pdf2' = NotYet
            /\ differ' = NotYet /\ comparison' = NotYet
            /\ UNCHANGED <<chatbot, current_comparison, current_document_texts>>
       ELSE /\ pdf1' = IF TempPath(file1.filename) = TempPath(file2.filename)
                       THEN file2.content ELSE file1.content
            /\ pdf2' = file2.content
            /\ LET doc1 == extract_text(pdf1')
                   doc2 == extract_text(pdf2')
               IN  IF doc1.status = "raised"
                   THEN comparison' = doc1 /\ differ' = NotYet
                   ELSE IF doc2.status = "raised"
                   THEN comparison' = doc2 /\ differ' = NotYet
                   ELSE /\ differ' = SequenceMatcher(Split(doc1.full_text, "\n"),
                                                     Split(doc2.full_text, "\n"))
                        /\ comparison' = CompareExtracted(doc1, doc2, differ')
            /\ IF comparison'.status = "raised"
               THEN /\ response' = HttpError(500, [prefix |-> "Error al comparar documentos: ",
                                                   cause |-> comparison'])
                    /\ UNCHANGED <<chatbot, current_comparison, current_document_texts>>
               ELSE /\ current_comparison' = comparison'
                    /\ current_document_texts' =
                          [document1 |-> extract_text(pdf1').full_text,
                           document2 |-> extract_text(pdf2').full_text]
                    /\ chatbot' = IF chatbot.status = "ok"
                                  THEN clear_history(chatbot)
                                  ELSE chatbot
                    /\ response' =
                          [status |-> "ok", code |-> 200, success |-> TRUE,
                           comparison |-> comparison',
                           explanation |-> explanation]
    /\ UNCHANGED <<extracted, raw_text, cleaned, explainer, tasks, running>>

\* A chat handler without the stored-comparison check: it asks the LLM with
\* no context when nothing is stored.
ApiChat_without_comparison_check(raw_question, outcome) ==
    /\ chatbot.status = "ok" => Len(chatbot.conversation_history) < 2 * MaxQuestions
    /\ request' = [endpoint |-> "chat", question |-> raw_question]
    /\ IF chatbot.status = "none"
       THEN /\ response' = HttpError(503, "Chatbot no está disponible. Verifica que OPENAI_API_KEY esté configurada.")
            /\ llm_request' = NotYet
            /\ chatbot' = chatbot
       ELSE LET question == Strip(raw_question) IN
            IF question = <<>>
            THEN /\ response' = HttpError(400, "La pregunta no puede estar vacía")
                 /\ llm_request' = NotYet
                 /\ chatbot' = chatbot
            ELSE LET context == IF current_comparison.status = "none" THEN NotYet
                                ELSE prepare_document_context(current_comparison,
                                                              current_document_texts)
                     history == chatbot.conversation_history
                 IN  /\ llm_request' =
                           [status |-> "sent",
                            messages |-> ChatMessages(history, context, question)]
                     /\ IF outcome.raised
                        THEN /\ chatbot' = chatbot
                             /\ response' =
                                   [status |-> "ok", code |-> 200, success |-> TRUE,
                                    answer |-> [kind |-> "error",
                                                prefix |-> "Error al generar respuesta: "],
                                    question |-> question]
                        ELSE /\ chatbot' =
                                   [chatbot EXCEPT !.conversation_history =
                                       HistoryAfter(history, question, outcome.answer)]
                             /\ response' =
                                   [status |-> "ok", code |-> 200, success |-> TRUE,
                                    answer |-> [kind |-> "text", text |-> outcome.answer],
                                    question |-> question]
    /\ pdf1' = NotYet /\ pdf2' = NotYet
    /\ differ' = NotYet /\ comparison' = NotYet
    /\ UNCHANGED <<extracted, raw_text, cleaned>>
    /\ UNCHANGED <<explainer, current_comparison, current_document_texts, tasks, running>>

\* A chat handler whose ask_question records the question before the LLM is
\* called and keeps it when the call fails.
ApiChat_question_kept_on_failure(raw_question, outcome) ==
    /\ chatbot.status = "ok" => Len(chatbot.conversation_history) < 2 * MaxQuestions
    /\ request' = [endpoint |-> "chat", question |-> raw_question]
    /\ IF chatbot.status = "none"
       THEN /\ response' = HttpError(503, "Chatbot no está disponible. Verifica que OPENAI_API_KEY esté configurada.")
            /\ llm_request' = NotYet
            /\ chatbot' = chatbot
       ELSE IF current_comparison.status = "none"
       THEN /\ response' = HttpError(400, "No hay documentos comparados. Por favor compara documentos primero.")
            /\ llm_request' = NotYet
            /\ chatbot' = chatbot
       ELSE LET question == Strip(raw_question) IN
            IF question = <<>>
            THEN /\ response' = HttpError(400, "La pregunta no puede estar vacía")
                 /\ llm_request' = NotYet
                 /\ chatbot' = chatbot
            ELSE LET context == prepare_document_context(current_comparison,
                                                          current_document_texts)
                     history == chatbot.conversation_history
                 IN  /\ llm_request' =
                           [status |-> "sent",
                            messages |-> ChatMessages(history, context, question)]
                     /\ IF outcome.raised
                        THEN /\ chatbot' =
                                   [chatbot EXCEPT !.conversation_history =
                                       Append(history,
                                              [role |-> "user",
                                               content |-> [kind |-> "text",
                                                            text |-> question]])]
                             /\ response' =
                                   [status |-> "ok", code |-> 200, success |-> TRUE,
                                    answer |-> [kind |-> "error",
                                                prefix |-> "Error al generar respuesta: "],
                                    question |-> question]
                        ELSE /\ chatbot' =
                                   [chatbot EXCEPT !.conversation_history =
                                       HistoryAfter(history, question, outcome.answer)]
                             /\ response' =
                                   [status |-> "ok", code |-> 200, success |-> TRUE,
                                    answer |-> [kind |-> "text", text |-> outcome.answer],
                                    question |-> question]
    /\ pdf1' = NotYet /\ pdf2' = NotYet
    /\ differ' = NotYet /\ comparison' = NotYet
    /\ UNCHANGED <<extracted, raw_text, cleaned>>
    /\ UNCHANGED <<explainer, current_comparison, current_document_texts, tasks, running>>

\* POST /api/chat (main.chat_with_documents) with DocumentChatbot.ask_question.
ApiChat(raw_question, outcome) ==
    /\ chatbot.status = "ok" => Len(chatbot.conversation_history) < 2 * MaxQuestions
    /\ request' = [endpoint |-> "chat", question |-> raw_question]
    /\ IF chatbot.status = "none"
       THEN /\ response' = HttpError(503, "Chatbot no está disponible. Verifica que OPENAI_API_KEY esté configurada.")
            /\ llm_request' = NotYet
            /\ chatbot' = chatbot
       ELSE IF current_comparison.status = "none"
       THEN /\ response' = HttpError(400, "No hay documentos comparados. Por favor compara documentos primero.")
            /\ llm_request' = NotYet
            /\ chatbot' = chatbot
       ELSE LET question == Strip(raw_question) IN
            IF question = <<>>
            THEN /\ response' = HttpError(400, "La pregunta no puede estar vacía")
                 /\ llm_request' = NotYet
                 /\ chatbot' = chatbot
            ELSE LET context == prepare_document_context(current_comparison,
                                                          current_document_texts)
                     history == chatbot.conversation_history
                 IN  /\ llm_request' =
                           [status |-> "sent",
                            messages |-> ChatMessages(history, context, question)]
                     /\ IF outcome.raised
                        THEN /\ chatbot' = chatbot
                             /\ response' =
                                   [status |-> "ok", code |-> 200, success |-> TRUE,
                                    answer |-> [kind |-> "error",
                                                prefix |-> "Error al generar respuesta: "],
                                    question |-> question]
                        ELSE /\ chatbot' =
                                   [chatbot EXCEPT !.conversation_history =
                                       HistoryAfter(history, question, outcome.answer)]
                             /\ response' =
                                   [status |-> "ok", code |-> 200, success |-> TRUE,
                                    answer |-> [kind |-> "text", text |-> outcome.answer],
                                    question |-> question]
    /\ pdf1' = NotYet /\ pdf2' = NotYet
    /\ differ' = NotYet /\ comparison' = NotYet
    /\ UNCHANGED <<extracted, raw_text, cleaned>>
    /\ UNCHANGED <<explainer, current_comparison, current_document_texts, tasks, running>>

NextApp ==
    \/ \E file1, file2 \in Uploads, generate_explanation \in BOOLEAN,
          explanation \in Explanations :
          ApiCompare(file1, file2, generate_explanation, explanation)
    \/ \E raw_question \in Questions, outcome \in LlmOutcomes :
          ApiChat(raw_question, outcome)

SpecApp == InitApp /\ [][NextApp]_vars

(***************************************************************************)
(* The chatbot object on its own: ask_question and clear_history called in *)
(* any order on a DocumentChatbot, with one stored comparison as context   *)
(***************************************************************************)
\* The questions put to ask_question.
ChatQuestions == {<<"q">>, <<"p">>}

\* A chatbot was constructed and the comparison of AppPdfA with AppPdfB is
\* stored, as after a successful compare request.
InitChat ==
    /\ pdf1 = AppPdfA
    /\ pdf2 = AppPdfB
    /\ differ = SequenceMatcher(Split(extract_text(pdf1).full_text, "\n"),
                                Split(extract_text(pdf2).full_text, "\n"))
    /\ comparison = CompareExtracted(extract_text(pdf1), extract_text(pdf2), differ)
    /\ extracted = NotYet
    /\ raw_text = <<>>
    /\ cleaned = NotYet
    /\ explainer = [status |-> "ok"]
    /\ chatbot = [status |-> "ok", conversation_history |-> <<>>]
    /\ current_comparison = comparison
    /\ current_document_texts = [document1 |-> extract_text(pdf1).full_text,
                                 document2 |-> extract_text(pdf2).full_text]
    /\ request = NotYet
    /\ response = NotYet
    /\ llm_request = NotYet
    /\ tasks = <<>>
    /\ running = 0

\* DocumentChatbot.ask_question(question, comparison_result, document_texts):
\* the messages are sent to the LLM; its answer is appended to the history
\* with the question and returned, its failure is returned as an error text.
AskQuestion(question, outcome) ==
    LET context == prepare_document_context(current_comparison, current_document_texts)
        history == chatbot.conversation_history
    IN  /\ request' = [endpoint |-> "ask_question", question |-> question]
        /\ llm_request' = [status |-> "sent",
                           messages |-> ChatMessages(history, context, question)]
        /\ IF outcome.raised
           THEN /\ chatbot' = chatbot
                /\ response' = [status |-> "ok",
                                answer |-> [kind |-> "error",
                                            prefix |-> "Error al generar respuesta: "]]
           ELSE /\ chatbot' = [chatbot EXCEPT !.conversation_history =
                                  HistoryAfter(history, question, outcome.answer)]
                /\ response' = [status |-> "ok",
                                answer |-> [kind |-> "text", text |-> outcome.answer]]
        /\ UNCHANGED <<corevars, explainer, current_comparison, current_document_texts,
                       tasks, running>>

\* DocumentChatbot.clear_history().
ClearHistory ==
    /\ request' = [endpoint |-> "clear_history"]
    /\ chatbot' = clear_history(chatbot)
    /\ response' = [status |-> "ok"]
    /\ UNCHANGED llm_request
    /\ UNCHANGED <<corevars, explainer, current_comparison, current_document_texts,
                   tasks, running>>

NextChat ==
    \/ \E question \in ChatQuestions, outcome \in LlmOutcomes : AskQuestion(question, outcome)
    \/ ClearHistory

SpecChat == InitChat /\ [][NextChat]_vars

(***************************************************************************)
(* Concurrent requests: the handlers as coroutines of one event loop       *)
(* (uvicorn.run(app) starts one process with one loop; both handlers are   *)
(* `async def`, so they run on the loop, statement by statement, and the   *)
(* loop can switch to another handler only where the running one awaits)   *)
(***************************************************************************)
\* The statements of the two handlers before which the handler awaits, the
\* places where the event loop may run another coroutine: neither handler
\* body holds an await (file copies, the comparison and the LLM call are all
\* synchronous calls).
AwaitPoints_between_the_stores(kind) ==
    IF kind = "compare" THEN {"store_texts"} ELSE {}

AwaitPoints(kind) == {}

\* The uploads of the concurrent compare requests: two pairs of readable
\* PDFs with different comparison results and different texts.
RacePairs ==
    {<<Upload(XPdf, AppPdfA), Upload(YPdf, AppPdfB)>>,
     <<Upload(XPdf, AppPdfB), Upload(YPdf, AppPdfA)>>}

RaceQuestions == {<<"q">>}

\* A handler coroutine: its position, its request and its local variables.
Task(kind, pc, args, comparison_result, document_texts) ==
    [kind |-> kind, pc |-> pc, args |-> args,
     comparison_result |-> comparison_result, document_texts |-> document_texts]

\* The requests a client may send.
RaceRequests ==
    {Task("compare", "compare", [file1 |-> p[1], file2 |-> p[2]], NotYet, EmptyDict) :
        p \in RacePairs}
    \cup {Task("chat", "check", [question |-> q], NotYet, EmptyDict) : q \in RaceQuestions}

InitRace ==
    /\ pdf1 = NotYet
    /\ pdf2 = NotYet
    /\ differ = NotYet
    /\ comparison = NotYet
    /\ extracted = NotYet
    /\ raw_text = <<>>
    /\ cleaned = NotYet
    /\ explainer = NotYet
    /\ chatbot = [status |-> "ok", conversation_history |-> <<>>]
    /\ current_comparison = NotYet
    /\ current_document_texts = EmptyDict
    /\ request = NotYet
    /\ response = NotYet
    /\ llm_request = NotYet
    /\ tasks = [h \in 1..MaxTasks |-> IdleTask]
    /\ running = 0

\* The event loop may run statement pc of handler h: the handler is there and
\* no other coroutine is between two of its await points.
Runs(h, kind, pc) ==
    /\ tasks[h].kind = kind
    /\ tasks[h].pc = pc
    /\ running \in {0, h}

\* Handler h goes on as task: the loop stays with it up to its next await.
Advance(h, task) ==
    /\ tasks' = [tasks EXCEPT ![h] = task]
    /\ running' = IF task.pc \in AwaitPoints(task.kind) THEN 0 ELSE h

\* Handler h returns (or raises): its response is sent.
Return(h, req, resp) ==
    /\ tasks' = [tasks EXCEPT ![h] = IdleTask]
    /\ running' = 0
    /\ request' = req
    /\ response' = resp

\* A request arrives and its handler coroutine is created; it runs when the
\* loop is free.
StartTask(h, task) ==
    /\ tasks[h] = IdleTask
    /\ task.kind = "chat" =>
          Len(chatbot.conversation_history)
          + 2 * Cardinality({g \in 1..MaxTasks : tasks[g].kind = "chat"}) < 2 * MaxQuestions
    /\ tasks' = [tasks EXCEPT ![h] = task]
    /\ UNCHANGED <<corevars, explainer, chatbot, current_comparison, current_document_texts,
                   request, response, llm_request, running>>

\* compare_documents, lines 83-102: the uploads are saved, compared and read
\* again for their full texts.
RaceCompare(h) ==
    /\ Runs(h, "compare", "compare")
    /\ pdf1' = tasks[h].args.file1.content
    /\ pdf2' = tasks[h].args.file2.content
    /\ differ' = SequenceMatcher(Split(extract_text(pdf1').full_text, "\n"),
                                 Split(extract_text(pdf2').full_text, "\n"))
    /\ comparison' = CompareExtracted(extract_text(pdf1'), extract_text(pdf2'), differ')
    /\ Advance(h, Task("compare", "store_comparison", tasks[h].args, comparison',
                       [document1 |-> extract_text(pdf1').full_text,
                        document2 |-> extract_text(pdf2').full_text]))
    /\ UNCHANGED <<extracted, raw_text, cleaned, explainer, chatbot, current_comparison,
                   current_document_texts, request, response, llm_request>>

\* compare_documents, line 106: current_comparison = comparison_result
RaceStoreComparison(h) ==
    /\ Runs(h, "compare", "store_comparison")
    /\ current_comparison' = tasks[h].comparison_result
    /\ Advance(h, [tasks[h] EXCEPT !.pc = "store_texts"])
    /\ UNCHANGED <<corevars, explainer, chatbot, current_document_texts,
                   request, response, llm_request>>

\* compare_documents, lines 107-110: current_document_texts = {...}
RaceStoreTexts(h) ==
    /\ Runs(h, "compare", "store_texts")
    /\ current_document_texts' = tasks[h].document_texts
    /\ Advance(h, [tasks[h] EXCEPT !.pc = "clear_history"])
    /\ UNCHANGED <<corevars, explainer, chatbot, current_comparison,
                   request, response, llm_request>>

\* compare_documents, lines 113-114: chatbot.clear_history()
RaceClearHistory(h) ==
    /\ Runs(h, "compare", "clear_history")
    /\ chatbot' = IF chatbot.status = "ok" THEN clear_history(chatbot) ELSE chatbot
    /\ Advance(h, [tasks[h] EXCEPT !.pc = "respond"])
    /\ UNCHANGED <<corevars, explainer, current_comparison, current_document_texts,
                   request, response, llm_request>>

\* compare_documents, lines 116-141: no explainer, the response is returned.
RaceCompareReturn(h) ==
    /\ Runs(h, "compare", "respond")
    /\ Return(h, [endpoint |-> "compare", file1 |-> tasks[h].args.file1,
                  file2 |-> tasks[h].args.file2, generate_explanation |-> FALSE],
              [status |-> "ok", code |-> 200, success |-> TRUE,
               comparison |-> tasks[h].comparison_result,
               explanation |-> NoExplanation])
    /\ llm_request' = NotYet
    /\ UNCHANGED <<corevars, explainer, chatbot, current_comparison, current_document_texts>>

\* chat_with_documents, lines 159-173: the three checks.
RaceChatCheck(h) ==
    /\ Runs(h, "chat", "check")
    /\ IF chatbot.status = "none"
       THEN /\ Return(h, [endpoint |-> "chat", question |-> tasks[h].args.question],
                      HttpError(503, "Chatbot no está disponible. Verifica que OPENAI_API_KEY esté configurada."))
            /\ llm_request' = NotYet
       ELSE IF current_comparison.status = "none"
       THEN /\ Return(h, [endpoint |-> "chat", question |-> tasks[h].args.question],
                      HttpError(400, "No hay documentos comparados. Por favor compara documentos primero."))
            /\ llm_request' = NotYet
       ELSE IF Strip(tasks[h].args.question) = <<>>
       THEN /\ Return(h, [endpoint |-> "chat", question |-> tasks[h].args.question],
                      HttpError(400, "La pregunta no puede estar vacía"))
            /\ llm_request' = NotYet
       ELSE /\ Advance(h, [tasks[h] EXCEPT !.pc = "read_comparison"])
            /\ UNCHANGED <<request, response, llm_request>>
    /\ UNCHANGED <<corevars, explainer, chatbot, current_comparison, current_document_texts>>

\* chat_with_documents, line 178: the argument comparison_result=current_comparison
RaceReadComparison(h) ==
    /\ Runs(h, "chat", "read_comparison")
    /\ Advance(h, [tasks[h] EXCEPT !.pc = "read_texts",
                                   !.comparison_result = current_comparison])
    /\ UNCHANGED <<corevars, explainer, chatbot, current_comparison, current_document_texts,
                   request, response, llm_request>>

\* chat_with_documents, line 179: the argument document_texts=current_document_texts
RaceReadTexts(h) ==
    /\ Runs(h, "chat", "read_texts")
    /\ Advance(h, [tasks[h] EXCEPT !.pc = "ask",
                                   !.document_texts = current_document_texts])
    /\ UNCHANGED <<corevars, explainer, chatbot, current_comparison, current_document_texts,
                   request, response, llm_request>>

\* chat_with_documents, lines 176-186: ask_question is called with the values
\* read and its answer returned.
RaceAsk(h, outcome) ==
    /\ Runs(h, "chat", "ask")
    /\ LET question == Strip(tasks[h].args.question)
           context == prepare_document_context(tasks[h].comparison_result,
                                               tasks[h].document_texts)
           history == chatbot.conversation_history
       IN  /\ llm_request' = [status |-> "sent",
                              messages |-> ChatMessages(history, context, question)]
           /\ chatbot' = IF outcome.raised THEN chatbot
                         ELSE [chatbot EXCEPT !.conversation_history =
                                  HistoryAfter(history, question, outcome.answer)]
           /\ Return(h, [endpoint |-> "chat", question |-> tasks[h].args.question],
                     [status |-> "ok", code |-> 200, success |-> TRUE,
                      answer |-> IF outcome.raised
                                 THEN [kind |-> "error",
                                       prefix |-> "Error al generar respuesta: "]
                                 ELSE [kind |-> "text", text |-> outcome.answer],
                      question |-> question])
    /\ UNCHANGED <<corevars, explainer, current_comparison, current_document_texts>>

NextRace ==
    \/ \E h \in 1..MaxTasks, task \in RaceRequests : StartTask(h, task)
    \/ \E h \in 1..MaxTasks : RaceCompare(h)
    \/ \E h \in 1..MaxTasks : RaceStoreComparison(h)
    \/ \E h \in 1..MaxTasks : RaceStoreTexts(h)
    \/ \E h \in 1..MaxTasks : RaceClearHistory(h)
    \/ \E h \in 1..MaxTasks : RaceCompareReturn(h)
    \/ \E h \in 1..MaxTasks : RaceChatCheck(h)
    \/ \E h \in 1..MaxTasks : RaceReadComparison(h)
    \/ \E h \in 1..MaxTasks : RaceReadTexts(h)
    \/ \E h \in 1..MaxTasks, outcome \in LlmOutcomes : RaceAsk(h, outcome)

SpecRace == InitRace /\ [][NextRace]_vars

(***************************************************************************)
(* Properties of the comparison (checked under SpecCompare)                *)
(***************************************************************************)
\* compare_documents has returned a ComparisonResult.
Compared == comparison.status = "ok"

\* s[lo:hi] for 0 <= lo <= hi <= len(s), read index by index.
Range(s, lo, hi) == [n \in 1..(hi - lo) |-> s[lo + n]]

NonEqualOpcodes == SelectSeq(differ.opcodes, LAMBDA op : op.tag # "equal")

HasRepeatedLine(s) == \E m, n \in 1..Len(s) : m # n /\ s[m] = s[n]

\* C1: the opcodes of the aligner partition both line sequences: the first run
\* starts at 0 in both, every run starts where the previous one ended in both,
\* no run goes backwards, and the last run ends at len(A) and len(B).
C1_OpcodesPartition ==
    Compared =>
        LET ops == differ.opcodes IN
        /\ Len(ops) >= 1
        /\ ops[1].i1 = 0 /\ ops[1].j1 = 0
        /\ \A k \in 1..Len(ops) :
              /\ ops[k].i1 <= ops[k].i2 /\ ops[k].j1 <= ops[k].j2
              /\ ops[k].i1 < ops[k].i2 \/ ops[k].j1 < ops[k].j2
              /\ k > 1 => ops[k].i1 = ops[k - 1].i2 /\ ops[k].j1 = ops[k - 1].j2
        /\ ops[Len(ops)].i2 = Len(differ.a)
        /\ ops[Len(ops)].j2 = Len(differ.b)

\* A comparison of sequences with repeated lines whose opcodes hold equal and
\* changed runs and end with a changed run.
C1_Witness ==
    /\ Compared
    /\ Len(differ.opcodes) >= 3
    /\ differ.opcodes[Len(differ.opcodes)].tag # "equal"
    /\ HasRepeatedLine(differ.a) /\ HasRepeatedLine(differ.b)

\* Replaying the records from p against a: i is the next line of a to copy,
\* out what has been produced of document 2.  An added record's position is an
\* index into document 2, so unchanged lines are copied until out reaches it.
RECURSIVE Replay(_, _, _, _, _)
Replay(a, differences, p, i, out) ==
    IF p > Len(differences) THEN out \o PySlice(a, i, Len(a))
    ELSE LET d == differences[p] IN
         IF d.type = "deleted"
         THEN Replay(a, differences, p + 1, d.position + Len(d.lines),
                     out \o PySlice(a, i, d.position))
         ELSE IF d.type = "modified"
         THEN Replay(a, differences, p + 1, d.position + Len(d.old_lines),
                     out \o PySlice(a, i, d.position) \o d.new_lines)
         ELSE LET n == d.position - Len(out)
              IN  Replay(a, differences, p + 1, i + n,
                         out \o PySlice(a, i, i + n) \o d.lines)

\* C2: replaying the ordered DifferenceRecords against document 1's lines
\* yields exactly document 2's lines.
C2_ReplayReconstructs ==
    Compared => Replay(differ.a, comparison.differences, 1, 0, <<>>) = differ.b

\* A comparison with at least two records, of different kinds, and an unchanged line.
C2_Witness ==
    /\ Compared
    /\ Len(comparison.differences) >= 2
    /\ comparison.differences[1].type # comparison.differences[2].type
    /\ comparison.similarity_ratio.num > 0

\* C3: each replace opcode gives a 'modified' record with old_lines = A[i1:i2]
\* and new_lines = B[j1:j2], each delete opcode a 'deleted' record with lines =
\* A[i1:i2], each insert opcode an 'added' record with lines = B[j1:j2].
C3_RecordOfOpcode ==
    Compared =>
        \A k \in 1..Len(NonEqualOpcodes) :
            LET op == NonEqualOpcodes[k]
                d  == comparison.differences[k]
            IN  /\ k <= Len(comparison.differences)
                /\ op.tag = "replace" =>
                      /\ d.type = "modified"
                      /\ d.old_lines = Range(differ.a, op.i1, op.i2)
                      /\ d.new_lines = Range(differ.b, op.j1, op.j2)
                /\ op.tag = "delete" =>
                      d.type = "deleted" /\ d.lines = Range(differ.a, op.i1, op.i2)
                /\ op.tag = "insert" =>
                      d.type = "added" /\ d.lines = Range(differ.b, op.j1, op.j2)

\* A comparison whose opcodes hold a replace, a delete or insert, and an equal run.
C3_Witness ==
    /\ Compared
    /\ \E k \in 1..Len(differ.opcodes) : differ.opcodes[k].tag = "replace"
    /\ \E k \in 1..Len(differ.opcodes) : differ.opcodes[k].tag \in {"delete", "insert"}
    /\ \E k \in 1..Len(differ.opcodes) : differ.opcodes[k].tag = "equal"

KindOfTag(tag) ==
    IF tag = "replace" THEN "modified" ELSE IF tag = "delete" THEN "deleted" ELSE "added"

\* C4: the records correspond one to one, in order, to the non-equal opcodes:
\* as many records as non-equal opcodes, the k-th record being of the kind of
\* the k-th non-equal opcode and placed at its start.
C4_RecordsFollowOpcodes ==
    Compared =>
        /\ Len(comparison.differences) = Len(NonEqualOpcodes)
        /\ Len(comparison.differences) =
              Cardinality({k \in 1..Len(differ.opcodes) : differ.opcodes[k].tag # "equal"})
        /\ \A k \in 1..Len(comparison.differences) :
              /\ comparison.differences[k].type = KindOfTag(NonEqualOpcodes[k].tag)
              /\ comparison.differences[k].position =
                    IF NonEqualOpcodes[k].tag = "insert"
                    THEN NonEqualOpcodes[k].j1 ELSE NonEqualOpcodes[k].i1

\* A comparison with two records around an equal run, after a leading equal run.
C4_Witness ==
    /\ Compared
    /\ Len(comparison.differences) = 2
    /\ Len(differ.opcodes) = 4
    /\ differ.opcodes[1].tag = "equal"

SharesALine(a, b) == \E m \in 1..Len(a), n \in 1..Len(b) : a[m] = b[n]

\* C5: the similarity ratio lies in [0, 1], is 1.0 exactly when the two line
\* sequences are the same, and is 0.0 exactly when they share no equal line.
C5_RatioBounds ==
    Compared =>
        LET r == comparison.similarity_ratio IN
        /\ 0 <= r.num /\ r.num <= r.den /\ r.den > 0
        /\ r.num = r.den <=> differ.a = differ.b
        /\ r.num = 0 <=> ~SharesALine(differ.a, differ.b)

RECURSIVE EqualLines(_, _)
EqualLines(opcodes, p) ==
    IF p > Len(opcodes) THEN 0
    ELSE (IF opcodes[p].tag = "equal" THEN opcodes[p].i2 - opcodes[p].i1 ELSE 0)
         + EqualLines(opcodes, p + 1)

\* C6: the similarity ratio equals 2*M / T, M being the summed length of the
\* equal runs of the opcodes and T = len(A) + len(B).
C6_RatioFormula ==
    Compared =>
        LET r == comparison.similarity_ratio
            M == EqualLines(differ.opcodes, 1)
            T == Len(differ.a) + Len(differ.b)
        IN  T > 0 /\ r.den > 0 /\ r.num * T = 2 * M * r.den

\* A comparison with matched and unmatched lines.
C6_Witness ==
    /\ Compared
    /\ comparison.similarity_ratio.num > 0
    /\ comparison.similarity_ratio.num < comparison.similarity_ratio.den
    /\ Len(differ.a) # Len(differ.b)

\* C7: a record's position is the index where its change starts in the relevant
\* document: j1 into document 2 for an added record, i1 into document 1 for a
\* deleted or modified one, and the record's first line is the line there.
C7_PositionIsStart ==
    Compared =>
        \A k \in 1..Len(comparison.differences) :
            LET d  == comparison.differences[k]
                op == NonEqualOpcodes[k]
            IN  /\ d.type = "added" =>
                      /\ d.position = op.j1 /\ d.position < Len(differ.b)
                      /\ d.lines # <<>> /\ At(differ.b, d.position) = d.lines[1]
                /\ d.type = "deleted" =>
                      /\ d.position = op.i1 /\ d.position < Len(differ.a)
                      /\ d.lines # <<>> /\ At(differ.a, d.position) = d.lines[1]
                /\ d.type = "modified" =>
                      /\ d.position = op.i1 /\ d.position < Len(differ.a)
                      /\ d.old_lines # <<>> /\ At(differ.a, d.position) = d.old_lines[1]

\* An added record placed where the two documents' indices differ, and a deleted one.
C7_Witness ==
    /\ Compared
    /\ \E k \in 1..Len(comparison.differences) :
          /\ comparison.differences[k].type = "added"
          /\ NonEqualOpcodes[k].j1 # NonEqualOpcodes[k].i1
    /\ \E k \in 1..Len(comparison.differences) :
          comparison.differences[k].type = "deleted"

\* w is lines[lo:hi] clamped to the document: it holds the lines at the indices
\* lo, lo + 1, ... below both hi and len(lines), and nothing if there are none.
IsWindow(w, lines, lo, hi) ==
    /\ Len(w) = Max(0, Min(hi, Len(lines)) - lo)
    /\ \A n \in 1..Len(w) : lo + n <= Len(lines) /\ w[n] = lines[lo + n]

\* C8: every record's context holds the four windows of radius 3 around pos1 =
\* i1 in document 1 and around pos2 in document 2 (j1 for modified and added
\* records, i1 for deleted ones), clamped to the documents; no window is longer
\* than 3 lines and a change at line 0 has an empty before_doc1.
C8_ContextWindows ==
    Compared =>
        \A k \in 1..Len(comparison.differences) :
            LET c    == comparison.differences[k].context
                op   == NonEqualOpcodes[k]
                pos1 == op.i1
                pos2 == IF op.tag = "delete" THEN op.i1 ELSE op.j1
            IN  /\ IsWindow(c.before_doc1, differ.a, Max(0, pos1 - 3), pos1)
                /\ IsWindow(c.after_doc1, differ.a, pos1, pos1 + 3)
                /\ IsWindow(c.before_doc2, differ.b, Max(0, pos2 - 3), pos2)
                /\ IsWindow(c.after_doc2, differ.b, pos2, pos2 + 3)
                /\ Len(c.before_doc1) <= 3 /\ Len(c.after_doc1) <= 3
                /\ Len(c.before_doc2) <= 3 /\ Len(c.after_doc2) <= 3
                /\ pos1 = 0 => c.before_doc1 = <<>>

\* A deleted record whose i1 lies beyond the end of document 2, and a record
\* at line 0.
C8_Witness ==
    /\ Compared
    /\ \E k \in 1..Len(comparison.differences) :
          /\ comparison.differences[k].type = "deleted"
          /\ comparison.differences[k].position > Len(differ.b)
    /\ comparison.differences[1].position = 0

(***************************************************************************)
(* Properties of the text cleaning (checked under SpecClean)               *)
(***************************************************************************)
IsBlank(line) == \A n \in 1..Len(line) : line[n] \in Whitespace

NonBlankCount(lines) == Cardinality({n \in 1..Len(lines) : ~IsBlank(lines[n])})

\* "Art 1\n\nArt 2"
Scenario5Cleaned ==
    <<"A", "r", "t", " ", "1", "\n", "\n", "A", "r", "t", " ", "2">>

\* C9: cleaning keeps the line breaks between lines: the non-blank lines of the
\* input stay on different lines of the output, every output line is stripped
\* and holds no run of two spaces, no two consecutive output lines are blank,
\* and "  Art   1  \n\n\n Art 2 " becomes "Art 1\n\nArt 2".
C9_CleaningKeepsLines ==
    cleaned.status = "ok" =>
        LET out == Split(cleaned.text, "\n") IN
        /\ NonBlankCount(out) = NonBlankCount(Split(raw_text, "\n"))
        /\ \A n \in 1..Len(out) : Strip(out[n]) = out[n]
        /\ \A n \in 1..(Len(out) - 1) : ~(out[n] = <<>> /\ out[n + 1] = <<>>)
        /\ raw_text = Scenario5 => cleaned.text = Scenario5Cleaned

(***************************************************************************)
(* Properties of the extraction (checked under SpecExtract)                *)
(***************************************************************************)
HasNoText(page) == page.kind = "none" \/ IsBlank(page.text)

\* The PDF with every page that has no extractable text carrying no text at all.
WithoutBlankPages(doc) ==
    [doc EXCEPT !.pages =
        [n \in 1..Len(doc.pages) |->
            IF doc.pages[n].kind # "raises" /\ HasNoText(doc.pages[n])
            THEN NonePage ELSE doc.pages[n]]]

\* C10: a page whose raw text is missing, empty or only whitespace contributes
\* nothing: full_text, total_lines and pages are what they would be if the page
\* carried no text, and total_pages still counts the page.
C10_BlankPageContributesNothing ==
    extracted.status = "ok" =>
        LET ref == extract_text(WithoutBlankPages(pdf1)) IN
        /\ extracted.full_text = ref.full_text
        /\ extracted.total_lines = ref.total_lines
        /\ extracted.pages = ref.pages
        /\ extracted.total_pages = Len(pdf1.pages)

\* The number of line breaks of a text.
LineBreaks(text) == Cardinality({n \in 1..Len(text) : text[n] = "\n"})

\* C11: every ExtractedDocument has total_lines equal to the number of segments
\* of full_text split on the line break (one more than its line breaks, so at
\* least 1), total_chars equal to the length of full_text, and full_text equal
\* to the cleaned texts of the recorded pages joined by a line break in page
\* order, the recorded page numbers being 1-based and strictly increasing.
C11_DocumentTotals ==
    extracted.status = "ok" =>
        /\ extracted.total_lines = LineBreaks(extracted.full_text) + 1
        /\ extracted.total_lines = Len(Split(extracted.full_text, "\n"))
        /\ extracted.total_lines >= 1
        /\ extracted.total_chars = Len(extracted.full_text)
        /\ extracted.full_text =
              Join([k \in 1..Len(extracted.pages) |-> extracted.pages[k].text], "\n")
        /\ \A k \in 1..Len(extracted.pages) :
              /\ extracted.pages[k].page \in 1..extracted.total_pages
              /\ pdf1.pages[extracted.pages[k].page].kind = "text"
              /\ extracted.pages[k].text = clean_text(pdf1.pages[extracted.pages[k].page].text)
              /\ k > 1 => extracted.pages[k - 1].page < extracted.pages[k].page

\* A document with no text at all, which still counts one line.
C11_Witness ==
    /\ extracted.status = "ok"
    /\ extracted.total_pages >= 1
    /\ extracted.pages = <<>>
    /\ extracted.full_text = <<>>
    /\ extracted.total_lines = 1

Fails(pdf) == ~pdf.openable \/ \E p \in 1..Len(pdf.pages) : pdf.pages[p].kind = "raises"

\* C12: if the PDF does not open or any of its pages fails, extract_text
\* returns no document, not even one of the pages read before the failure: it
\* raises the extraction error, whose message is the fixed prefix followed by
\* the message of the underlying failure; otherwise it returns a document.
C12_FailureRaises ==
    extracted.status # "none" =>
        /\ Fails(pdf1) <=> extracted.status = "raised"
        /\ ~Fails(pdf1) <=> extracted.status = "ok"
        /\ extracted.status = "raised" =>
              /\ DOMAIN extracted = {"status", "prefix", "cause"}
              /\ extracted.prefix = "Error al procesar PDF: "
              /\ extracted.cause = IF pdf1.openable THEN "page" ELSE "open"

\* An extraction that failed on a later page, after pages with text were read.
C12_Witness ==
    /\ extracted.status = "raised"
    /\ extracted.cause = "page"
    /\ Len(pdf1.pages) >= 2
    /\ pdf1.pages[1].kind = "text" /\ pdf1.pages[1].text # <<>>
    /\ pdf1.pages[Len(pdf1.pages)].kind = "raises"

RecordsOfType(differences, type) == SelectSeq(differences, LAMBDA d : d.type = type)

\* The lines of the records of one kind, one after the other.
RECURSIVE ConcatLines(_)
ConcatLines(records) ==
    IF records = <<>> THEN <<>> ELSE Head(records).lines \o ConcatLines(Tail(records))

\* C14: added_sections, deleted_sections and modified_sections count the
\* records of each kind and sum to total_differences; total_added_lines is the
\* number of lines of the added records and total_deleted_lines that of the
\* deleted records, so a modified record adds to neither total.
C14_StatisticsCounts ==
    Compared =>
        LET st == comparison.statistics
            ds == comparison.differences
        IN  /\ st.total_differences = Len(ds)
            /\ st.added_sections = Len(RecordsOfType(ds, "added"))
            /\ st.deleted_sections = Len(RecordsOfType(ds, "deleted"))
            /\ st.modified_sections = Len(RecordsOfType(ds, "modified"))
            /\ st.added_sections + st.deleted_sections + st.modified_sections
                  = st.total_differences
            /\ st.total_added_lines = Len(ConcatLines(RecordsOfType(ds, "added")))
            /\ st.total_deleted_lines = Len(ConcatLines(RecordsOfType(ds, "deleted")))

\* A comparison with a modified record of several lines next to an added or a
\* deleted record.
C14_Witness ==
    /\ Compared
    /\ \E k \in 1..Len(comparison.differences) :
          /\ comparison.differences[k].type = "modified"
          /\ Len(comparison.differences[k].old_lines)
                + Len(comparison.differences[k].new_lines) >= 3
    /\ comparison.statistics.modified_sections >= 1
    /\ comparison.statistics.total_added_lines
          + comparison.statistics.total_deleted_lines >= 1

\* Every line of every record: lines, and both old_lines and new_lines.
RECURSIVE ChangedLines(_)
ChangedLines(records) ==
    IF records = <<>> THEN <<>>
    ELSE LET d == Head(records)
         IN  (IF d.type = "modified" THEN d.old_lines \o d.new_lines ELSE d.lines)
             \o ChangedLines(Tail(records))

\* C15: for a non-empty difference list, pages_changed is
\* min(trunc(C / max(avg, 1)) + 1, max(total_pages1, total_pages2)) with C the
\* number of changed lines (old and new lines of modified records both
\* counted) and avg = (total_lines1 + total_lines2) / 2 / max(total_pages1,
\* total_pages2, 1); it never exceeds the larger page count.  The quotient q
\* is stated without division: q * max(avg, 1) <= C < (q + 1) * max(avg, 1),
\* both sides multiplied by 2 * max(total_pages1, total_pages2, 1).
C15_PagesChangedFormula ==
    (Compared /\ comparison.differences # <<>>) =>
        LET d1 == comparison.document1
            d2 == comparison.document2
            C  == Len(ChangedLines(comparison.differences))
            P  == Max(Max(d1.total_pages, d2.total_pages), 1)
            M  == Max(d1.total_lines + d2.total_lines, 2 * P)
            pc == comparison.statistics.pages_changed
        IN  /\ \E q \in 0..C :
                  /\ q * M <= C * 2 * P /\ C * 2 * P < (q + 1) * M
                  /\ pc = Min(q + 1, Max(d1.total_pages, d2.total_pages))
            /\ pc <= Max(d1.total_pages, d2.total_pages)

\* A comparison with a modified record whose estimate stays below the larger
\* page count.
C15_Witness ==
    /\ Compared
    /\ comparison.statistics.modified_sections >= 1
    /\ comparison.statistics.pages_changed
          < Max(comparison.document1.total_pages, comparison.document2.total_pages)

\* A comparison whose estimate is cut down to the larger page count.
C15_WitnessClamped ==
    /\ Compared
    /\ comparison.differences # <<>>
    /\ Len(ChangedLines(comparison.differences)) + 1
          > Max(comparison.document1.total_pages, comparison.document2.total_pages)

\* C16: with an empty difference list pages_changed is 0 whatever the line and
\* page counts of the documents; and two documents with the same line sequence
\* give no difference, similarity ratio 1.0 and every statistics counter 0.
C16_NoDifferences ==
    Compared =>
        /\ comparison.differences = <<>> => comparison.statistics.pages_changed = 0
        /\ differ.a = differ.b =>
              /\ comparison.differences = <<>>
              /\ comparison.similarity_ratio.num = comparison.similarity_ratio.den
              /\ \A f \in DOMAIN comparison.statistics : comparison.statistics[f] = 0

\* Two documents with the same several lines on at least one page.
C16_Witness ==
    /\ Compared
    /\ differ.a = differ.b
    /\ Len(differ.a) >= 2
    /\ comparison.document1.total_pages >= 1
    /\ comparison.statistics.pages_changed = 0

\* Two documents with the same lines and different page counts.
C16_WitnessPageCounts ==
    /\ Compared
    /\ comparison.differences = <<>>
    /\ comparison.document1.total_pages # comparison.document2.total_pages

IsProperPrefix(a, b) == Len(a) < Len(b) /\ SubSeq(b, 1, Len(a)) = a

\* C17: when document 2 is document 1 followed by further lines S, the
\* comparison yields exactly one record: 'added', lines = S, position =
\* len(A), also when lines of S repeat lines of document 1.
C17_AppendedLines ==
    (Compared /\ IsProperPrefix(differ.a, differ.b)) =>
        /\ Len(comparison.differences) = 1
        /\ comparison.differences[1].type = "added"
        /\ comparison.differences[1].lines
              = SubSeq(differ.b, Len(differ.a) + 1, Len(differ.b))
        /\ comparison.differences[1].position = Len(differ.a)

\* Appended lines that repeat lines of document 1.
C17_Witness ==
    /\ Compared
    /\ IsProperPrefix(differ.a, differ.b)
    /\ Len(differ.a) >= 2
    /\ SubSeq(differ.b, Len(differ.a) + 1, Len(differ.b)) = differ.a
    /\ Len(comparison.differences) = 1
    /\ comparison.differences[1].position = Len(differ.a)

\* Appended lines on a document long enough for the autojunk heuristic.
C17_WitnessLong ==
    /\ Compared
    /\ IsProperPrefix(differ.a, differ.b)
    /\ Len(differ.b) >= AutoJunkMinLen
    /\ Len(comparison.differences) = 1

\* C18: two documents that share no line, of equal or different lengths, give
\* exactly one record: 'modified', position 0, old_lines = all of document 1,
\* new_lines = all of document 2.
C18_FullyChanged ==
    (Compared /\ ~SharesALine(differ.a, differ.b)) =>
        /\ Len(comparison.differences) = 1
        /\ comparison.differences[1].type = "modified"
        /\ comparison.differences[1].position = 0
        /\ comparison.differences[1].old_lines = differ.a
        /\ comparison.differences[1].new_lines = differ.b

\* Two documents of several lines and different lengths that share no line.
C18_Witness ==
    /\ Compared
    /\ ~SharesALine(differ.a, differ.b)
    /\ Len(differ.a) >= 2 /\ Len(differ.b) >= 2
    /\ Len(differ.a) # Len(differ.b)
    /\ Len(comparison.differences) = 1
    /\ comparison.differences[1].type = "modified"

\* C19: no record is empty (an added or deleted record has at least one line,
\* a modified record at least one old and one new line, as many as its opcode
\* covers), and between the regions of two consecutive records lies at least
\* one unchanged line: the same non-empty run of lines in both documents.
C19_OneRecordPerRegion ==
    Compared =>
        LET ds  == comparison.differences
            ops == NonEqualOpcodes
        IN  /\ Len(ds) = Len(ops)
            /\ \A k \in 1..Len(ds) :
                  IF ds[k].type = "modified"
                  THEN /\ Len(ds[k].old_lines) = ops[k].i2 - ops[k].i1
                       /\ Len(ds[k].new_lines) = ops[k].j2 - ops[k].j1
                       /\ Len(ds[k].old_lines) >= 1 /\ Len(ds[k].new_lines) >= 1
                  ELSE /\ Len(ds[k].lines) >= 1
                       /\ Len(ds[k].lines) = IF ds[k].type = "added"
                                              THEN ops[k].j2 - ops[k].j1
                                              ELSE ops[k].i2 - ops[k].i1
                       /\ ds[k].type = "added" => ops[k].i1 = ops[k].i2
                       /\ ds[k].type = "deleted" => ops[k].j1 = ops[k].j2
            /\ \A k \in 1..(Len(ds) - 1) :
                  /\ ops[k + 1].i1 - ops[k].i2 >= 1
                  /\ ops[k + 1].i1 - ops[k].i2 = ops[k + 1].j1 - ops[k].j2
                  /\ PySlice(differ.a, ops[k].i2, ops[k + 1].i1)
                        = PySlice(differ.b, ops[k].j2, ops[k + 1].j1)

\* A comparison with three records, one of them modified.
C19_Witness ==
    /\ Compared
    /\ Len(comparison.differences) >= 3
    /\ comparison.statistics.modified_sections >= 1

(***************************************************************************)
(* Properties of the application (checked under SpecApp)                   *)
(***************************************************************************)
\* The PDFs a compare request's handler reads back from its two temp paths.
ReadAsDocument1(req) ==
    IF TempPath(req.file1.filename) = TempPath(req.file2.filename)
    THEN req.file2.content ELSE req.file1.content

ReadAsDocument2(req) == req.file2.content

\* The request handled last is a compare request that passed the filename check.
CompareRan ==
    /\ request # NotYet
    /\ request.endpoint = "compare"
    /\ ~(response.status = "error" /\ response.code = 400)

\* C13: a comparison has no partial result.  A compare request returns a
\* ComparisonResult exactly if both documents it reads are extracted; if the
\* extraction of either fails the request fails with that extraction error
\* (the first document's if both fail), its response carries no
\* ComparisonResult, and the stored current comparison and document texts keep
\* the values they had before the request.
C13_NoPartialResult ==
    [][CompareRan' =>
          LET doc1 == extract_text(ReadAsDocument1(request'))
              doc2 == extract_text(ReadAsDocument2(request'))
          IN  /\ response'.status = "ok" <=>
                    (~Fails(ReadAsDocument1(request')) /\ ~Fails(ReadAsDocument2(request')))
              /\ response'.status = "ok" =>
                    /\ response'.comparison.status = "ok"
                    /\ response'.comparison.document1 = Summary(doc1)
                    /\ response'.comparison.document2 = Summary(doc2)
              /\ response'.status = "error" =>
                    /\ response'.code = 500
                    /\ "comparison" \notin DOMAIN response'
                    /\ response'.detail.cause
                          = IF doc1.status = "raised" THEN doc1 ELSE doc2
                    /\ current_comparison' = current_comparison
                    /\ current_document_texts' = current_document_texts]_vars

\* A compare request failed on an extraction while a comparison was stored.
C13_Witness ==
    /\ CompareRan
    /\ response.status = "error"
    /\ response.code = 500
    /\ current_comparison.status = "ok"
    /\ extract_text(request.file1.content).status = "ok"
    /\ extract_text(request.file2.content).status = "raised"

\* The request handled last is a chat request that passed the three checks
\* (chatbot available, comparison stored, question not blank).
ChatAnswered ==
    /\ request # NotYet
    /\ request.endpoint = "chat"
    /\ response.status = "ok"

\* The context of the prompt sent to the LLM (the last message).
SentContext == llm_request.messages[Len(llm_request.messages)].content.context

\* A context holds the data of comparison result cr and texts, for texts up to
\* the sample threshold and no more differences than the context lists.
ContextReflects(ctx, cr, texts) ==
    /\ ctx.document1 = cr.document1
    /\ ctx.document2 = cr.document2
    /\ ctx.similarity * cr.similarity_ratio.den <= cr.similarity_ratio.num * 10000 + cr.similarity_ratio.den
    /\ ctx.similarity * cr.similarity_ratio.den >= cr.similarity_ratio.num * 10000 - cr.similarity_ratio.den
    /\ \A f \in DOMAIN ctx.statistics : ctx.statistics[f] = cr.statistics[f]
    /\ Len(ctx.differences) = Len(cr.differences)
    /\ \A k \in 1..Len(ctx.differences) :
          /\ ctx.differences[k].type = cr.differences[k].type
          /\ ctx.differences[k].type = "modified" =>
                /\ ctx.differences[k].old_lines
                      = SubSeq(cr.differences[k].old_lines, 1, Len(ctx.differences[k].old_lines))
                /\ ctx.differences[k].new_lines
                      = SubSeq(cr.differences[k].new_lines, 1, Len(ctx.differences[k].new_lines))
          /\ ctx.differences[k].type # "modified" =>
                ctx.differences[k].lines
                   = SubSeq(cr.differences[k].lines, 1, Len(ctx.differences[k].lines))
    /\ ctx.sample1 = IF texts.document1 = <<>> THEN <<>> ELSE <<texts.document1>>
    /\ ctx.sample2 = IF texts.document2 = <<>> THEN <<>> ELSE <<texts.document2>>

BadFilename ==
    /\ request # NotYet
    /\ request.endpoint = "compare"
    /\ \E f \in {request.file1, request.file2} :
          \/ Len(f.filename) < 4
          \/ SubSeq(f.filename, Len(f.filename) - 3, Len(f.filename)) # <<".", "p", "d", "f">>

\* The request handled last is a chat request with an empty or blank question.
BlankQuestion ==
    /\ request # NotYet
    /\ request.endpoint = "chat"
    /\ IsBlank(request.question)

\* C21: invalid input is rejected without touching state.  A compare request
\* with a filename that does not end in '.pdf' gets a 400 response, writes no
\* temp file, runs no extraction or comparison and leaves the stored
\* comparison, the stored texts and the chat history as they were; a chat
\* request with an empty or blank question, the chatbot being available and a
\* comparison stored, gets a 400 response, sends nothing to the LLM and leaves
\* the chat history as it was.
C21_InvalidInputRejected ==
    [][/\ BadFilename' =>
             /\ response' = HttpError(400, "Ambos archivos deben ser PDFs")
             /\ pdf1' = NotYet /\ pdf2' = NotYet
             /\ differ' = NotYet /\ comparison' = NotYet
             /\ llm_request' = NotYet
             /\ current_comparison' = current_comparison
             /\ current_document_texts' = current_document_texts
             /\ chatbot' = chatbot
       /\ (BlankQuestion' /\ chatbot.status = "ok" /\ current_comparison.status = "ok") =>
             /\ response' = HttpError(400, "La pregunta no puede estar vacía")
             /\ llm_request' = NotYet
             /\ chatbot' = chatbot
             /\ current_comparison' = current_comparison
             /\ current_document_texts' = current_document_texts
      ]_vars

\* A compare request with a non-PDF filename was rejected while a comparison
\* and a conversation were stored.
C21_Witness ==
    /\ BadFilename
    /\ response.status = "error" /\ response.code = 400
    /\ current_comparison.status = "ok"
    /\ chatbot.status = "ok"
    /\ Len(chatbot.conversation_history) >= 2

\* A blank question was rejected while a comparison and a conversation were
\* stored.
C21_WitnessBlankQuestion ==
    /\ BlankQuestion
    /\ request.question # <<>>
    /\ response.status = "error" /\ response.code = 400
    /\ current_comparison.status = "ok"
    /\ chatbot.status = "ok"
    /\ Len(chatbot.conversation_history) >= 2

\* C22: the comparison a compare request returns is computed with the content
\* uploaded as file1 as document 1 and the content uploaded as file2 as
\* document 2, whatever the two filenames: its document summaries are those of
\* the two uploads, and uploads whose line sequences differ never give zero
\* differences.
C22_UploadsAreTheDocuments ==
    (CompareRan /\ response.status = "ok") =>
        LET doc1 == extract_text(request.file1.content)
            doc2 == extract_text(request.file2.content)
        IN  /\ doc1.status = "ok" /\ doc2.status = "ok"
            /\ response.comparison.document1 = Summary(doc1)
            /\ response.comparison.document2 = Summary(doc2)
            /\ doc1.full_text # doc2.full_text => response.comparison.differences # <<>>

NoChatbotError ==
    HttpError(503, "Chatbot no está disponible. Verifica que OPENAI_API_KEY esté configurada.")

NoComparisonError ==
    HttpError(400, "No hay documentos comparados. Por favor compara documentos primero.")

\* C24: a chat request is never answered before a comparison has succeeded.
\* No comparison is stored until a compare request succeeds (failed ones store
\* none); while none is stored, a chat request with the chatbot available gets
\* the 400 'no compared documents' response, sends nothing to the LLM and
\* leaves the chat history as it was; with the chatbot unavailable a chat
\* request gets 503 whatever else holds.
C24_NoAnswerBeforeComparison ==
    [][/\ (current_comparison.status = "none" /\ ~(CompareRan' /\ response'.status = "ok")) =>
             /\ current_comparison'.status = "none"
             /\ current_document_texts' = EmptyDict
             /\ ~ChatAnswered'
       /\ (request'.endpoint = "chat" /\ chatbot.status = "ok"
           /\ current_comparison.status = "none") =>
             /\ response' = NoComparisonError
             /\ llm_request' = NotYet
             /\ chatbot' = chatbot
       /\ (request'.endpoint = "chat" /\ chatbot.status = "none") =>
             /\ response' = NoChatbotError
             /\ llm_request' = NotYet
             /\ chatbot' = chatbot
      ]_vars

\* A well-formed question was refused because no comparison is stored.
C24_Witness ==
    /\ request # NotYet
    /\ request.endpoint = "chat"
    /\ ~IsBlank(request.question)
    /\ chatbot.status = "ok"
    /\ current_comparison.status = "none"
    /\ response = NoComparisonError

\* A question was refused with 503 although a comparison is stored.
C24_WitnessNoChatbot ==
    /\ request # NotYet
    /\ request.endpoint = "chat"
    /\ current_comparison.status = "ok"
    /\ response = NoChatbotError

\* s is t[-n:] for some n >= 0 (or the empty list).
IsTailOf(s, t) ==
    /\ Len(s) <= Len(t)
    /\ s = SubSeq(t, Len(t) - Len(s) + 1, Len(t))

\* The history messages of an LLM request: those between the system prompt
\* and the final prompt.
SentHistory(messages) == SubSeq(messages, 2, Len(messages) - 1)

\* C25: a successful compare request leaves the chatbot with an empty history
\* and a failed one leaves the history as it was; the history messages of an
\* LLM request are a tail of the history as it stood before the question, and
\* a chat request changes the history at most by appending its own question
\* and answer, so nothing exchanged before the latest successful comparison
\* reaches the LLM.
C25_ComparisonClearsHistory ==
    [][/\ (request'.endpoint = "compare" /\ response'.status = "ok" /\ chatbot.status = "ok") =>
             /\ chatbot'.status = "ok"
             /\ chatbot'.conversation_history = <<>>
       /\ (request'.endpoint = "compare" /\ response'.status = "error") =>
             chatbot' = chatbot
       /\ (request'.endpoint = "chat" /\ llm_request'.status = "sent") =>
             /\ IsTailOf(SentHistory(llm_request'.messages), chatbot.conversation_history)
             /\ \/ chatbot' = chatbot
                \/ /\ Len(chatbot'.conversation_history) >= 2
                   /\ IsTailOf(SubSeq(chatbot'.conversation_history, 1,
                                      Len(chatbot'.conversation_history) - 2),
                               chatbot.conversation_history)
                   /\ chatbot'.conversation_history[Len(chatbot'.conversation_history) - 1] =
                         [role |-> "user",
                          content |-> [kind |-> "text", text |-> response'.question]]
                   /\ chatbot'.conversation_history[Len(chatbot'.conversation_history)].role =
                         "assistant"
       /\ (request'.endpoint = "chat" /\ llm_request'.status # "sent") =>
             chatbot' = chatbot
      ]_vars

\* A successful compare request has returned and the history is empty.
C25_Witness ==
    /\ CompareRan
    /\ response.status = "ok"
    /\ chatbot.status = "ok"
    /\ chatbot.conversation_history = <<>>
    /\ current_comparison = response.comparison

\* A failed compare request has returned and the history still holds an
\* exchange.
C25_WitnessFailedKeeps ==
    /\ request # NotYet
    /\ request.endpoint = "compare"
    /\ response.status = "error"
    /\ chatbot.status = "ok"
    /\ Len(chatbot.conversation_history) >= 2

\* The history is a list of question/answer pairs: user then assistant, no
\* more than MaxHistory messages.
HistoryWellFormed(history) ==
    /\ Len(history) % 2 = 0
    /\ Len(history) <= 20
    /\ \A k \in 1..Len(history) :
          /\ history[k].role = (IF k % 2 = 1 THEN "user" ELSE "assistant")
          /\ history[k].content.kind = "text"

\* C26: after any sequence of ask_question and clear_history calls the history
\* has an even length of at most 20, alternates user and assistant starting
\* with user, and holds the most recent pairs in order (an answered question
\* appends its pair after the pairs already there, dropping only the oldest
\* messages beyond 20; an unanswered one changes nothing; clear_history
\* empties it).  Each LLM request is the system prompt, then the last
\* min(6, length) history messages in order, then the prompt with the
\* question.
C26_HistoryShape ==
    [][LET before == chatbot.conversation_history
           after == chatbot'.conversation_history
       IN  /\ HistoryWellFormed(before)
           /\ HistoryWellFormed(after)
           /\ request'.endpoint = "clear_history" => after = <<>>
           /\ request'.endpoint = "ask_question" =>
                 LET messages == llm_request'.messages IN
                 /\ llm_request'.status = "sent"
                 /\ Len(messages) = 2 + (IF Len(before) < 6 THEN Len(before) ELSE 6)
                 /\ messages[1] = SystemMessage
                 /\ \A k \in 1..(Len(messages) - 2) :
                       messages[1 + k] = before[Len(before) - (Len(messages) - 2) + k]
                 /\ messages[Len(messages)].role = "user"
                 /\ messages[Len(messages)].content.kind = "prompt"
                 /\ messages[Len(messages)].content.question = request'.question
                 /\ IF response'.answer.kind = "text"
                    THEN /\ Len(after) = (IF Len(before) + 2 < 20 THEN Len(before) + 2 ELSE 20)
                         /\ after[Len(after) - 1].content.text = request'.question
                         /\ after[Len(after)].content.text = response'.answer.text
                         /\ \A k \in 1..(Len(after) - 2) :
                               after[k] = before[Len(before) - (Len(after) - 2) + k]
                    ELSE after = before
      ]_vars

\* The history is full and the last request sent six history messages: the
\* three exchanges before the one that is now last.
C26_Witness ==
    /\ request # NotYet
    /\ request.endpoint = "ask_question"
    /\ response.answer.kind = "text"
    /\ Len(chatbot.conversation_history) = 20
    /\ Len(llm_request.messages) = 8
    /\ SentHistory(llm_request.messages) = SubSeq(chatbot.conversation_history, 13, 18)
    /\ chatbot.conversation_history[1].content.text # chatbot.conversation_history[3].content.text

\* The ComparisonResult of the compare request with uploads pair.
RaceResult(pair) ==
    LET doc1 == extract_text(pair[1].content)
        doc2 == extract_text(pair[2].content)
        matcher == SequenceMatcher(Split(doc1.full_text, "\n"), Split(doc2.full_text, "\n"))
    IN  CompareExtracted(doc1, doc2, matcher)

\* The document texts the compare request with uploads pair stores.
RaceTexts(pair) ==
    [document1 |-> extract_text(pair[1].content).full_text,
     document2 |-> extract_text(pair[2].content).full_text]

\* Both values were written by one compare request.
FromOneComparison(comparison_result, document_texts) ==
    \E pair \in RacePairs :
        /\ comparison_result = RaceResult(pair)
        /\ document_texts = RaceTexts(pair)

\* C27: with compare and chat requests in flight together, in any order the
\* event loop can run them, the ComparisonResult and the document texts a chat
\* request has read for its ask_question call were written by one and the
\* same compare request; and whenever the loop is free to run another handler
\* the two stored values are both unset or both of one compare request.
C27_ChatReadsOneComparison ==
    /\ \A h \in 1..MaxTasks :
          (tasks[h].kind = "chat" /\ tasks[h].pc = "ask") =>
              FromOneComparison(tasks[h].comparison_result, tasks[h].document_texts)
    /\ running = 0 =>
          \/ current_comparison = NotYet /\ current_document_texts = EmptyDict
          \/ FromOneComparison(current_comparison, current_document_texts)

\* A chat request has read both stored values while a compare request for
\* other uploads is in flight.
C27_Witness ==
    \E h, g \in 1..MaxTasks :
        /\ tasks[h].kind = "chat"
        /\ tasks[h].pc = "ask"
        /\ tasks[g].kind = "compare"
        /\ tasks[h].comparison_result = current_comparison
        /\ tasks[h].document_texts # RaceTexts(<<tasks[g].args.file1, tasks[g].args.file2>>)

\* C28: a failure of the LLM call is returned as a value.  An LLM request
\* that was sent ends in a 200 response, never in an error response; its
\* answer is the LLM's text, with the question and the answer appended to the
\* history, or else the text starting 'Error al generar respuesta: ', with
\* the history exactly as it was before the request.
C28_LlmFailureIsAnAnswer ==
    [][(request'.endpoint = "chat" /\ llm_request'.status = "sent") =>
          /\ response'.status = "ok"
          /\ response'.code = 200
          /\ response'.success
          /\ response'.question = Strip(request'.question)
          /\ IF response'.answer.kind = "text"
             THEN /\ response'.answer.text \in Answers
                  /\ chatbot'.conversation_history =
                        chatbot.conversation_history
                        \o <<[role |-> "user",
                              content |-> [kind |-> "text", text |-> response'.question]],
                             [role |-> "assistant",
                              content |-> [kind |-> "text", text |-> response'.answer.text]]>>
             ELSE /\ response'.answer =
                        [kind |-> "error", prefix |-> "Error al generar respuesta: "]
                  /\ chatbot' = chatbot
      ]_vars

\* The LLM call failed after an earlier question had been answered: the error
\* text is the answer of a 200 response and the history holds the earlier
\* exchange only.
C28_Witness ==
    /\ ChatAnswered
    /\ llm_request.status = "sent"
    /\ response.code = 200
    /\ response.answer.kind = "error"
    /\ Len(chatbot.conversation_history) = 2
    /\ Len(llm_request.messages) = 4

=============================================================================
